---- MODULE Spec2Model ----
(***************************************************************************)
(* Petra: handle-addressed resource registries, buffer / texture mutation, *)
(* the bind-group invalidation cascade and the per-frame executor.         *)
(*                                                                         *)
(* A Handle<T> is its index (0-based, as in the source); a Registry<T> is  *)
(* the sequence of its entries, entry of handle h at position h + 1.       *)
(* A device allocation (raw buffer, raw texture) is named by the resource  *)
(* that made it and the number of allocations that resource made before:   *)
(* every create_buffer / create_texture call yields a name never used      *)
(* before, as the device yields a fresh object.                            *)
(***************************************************************************)
EXTENDS Naturals, Integers, Sequences, FiniteSets, TLC

VARIABLES
    debug,              \* cfg!(debug_assertions) of the build
    status,             \* "running", or "panicked" once an operation panicked
    config,             \* SurfaceConfiguration: width, height
    buffers,            \* Registry<Buffer>
    textures,           \* Registry<Texture>
    samplers,           \* Registry<TextureSampler>
    bind_groups,        \* Registry<BindGroup>
    shaders,            \* Registry<Shader>
    render_pipelines,   \* Registry<RenderPipeline>
    compute_pipelines,  \* Registry<ComputePipeline>
    render_passes,      \* Registry<RenderPass>
    compute_passes,     \* Registry<ComputePass>
    passes,             \* PassManager
    destroyed,          \* device allocations on which destroy() was called
    issued,             \* every handle a registry's add has returned
    frame,              \* what the last render() did with the device
    last                \* the last operation and its outcome

vars == <<debug, status, config, buffers, textures, samplers, bind_groups,
          shaders, render_pipelines, compute_pipelines, render_passes,
          compute_passes, passes, destroyed, issued, frame, last>>

registries == <<buffers, textures, samplers, bind_groups, shaders,
                render_pipelines, compute_pipelines, render_passes,
                compute_passes, passes>>

(***************************************************************************)
(* Bounds of the exploration.                                              *)
(***************************************************************************)
MaxBuffers == 2
MaxTextures == 2
MaxBindGroups == 2
MaxBindings == 2
MaxCount == 1
MaxGen == 2
\* Registry sizes of the runs that mix buffers and textures
MixedBuffers == 1
MixedTextures == 2
\* Entries per registry of the runs over all nine registries: of the buffers
\* and the render passes, and of the seven other registries
MaxEntries == 2
MaxOtherEntries == 1

(***************************************************************************)
(* Program constants.                                                      *)
(***************************************************************************)
MAP_ALIGNMENT == 8

None == [none |-> TRUE]

\* Option::Some
Some(x) == [some |-> x]

\* Element types a buffer can be declared with, and std::mem::size_of of each.
\* TriangleUniform (a Quat, a Vec2 and two f32) and ComputeUniform (a Vec2 and
\* two f32) are the uniform structs of the demo.
ElemTypes == {"u16", "u32", "Vec2"}

size_of(T) == CASE T = "u16" -> 2
                [] T = "u32" -> 4
                [] T = "Vec2" -> 8
                [] T = "ComputeUniform" -> 16
                [] T = "TriangleUniform" -> 32

\* T: Vertex (only such a T has vertex() and instance() on its builder).
IsVertex(T) == T = "Vec2"

Counts == 0 .. MaxCount

(***************************************************************************)
(* Handle / Registry                                                       *)
(***************************************************************************)
add_handle_after_push(reg, val) == [reg |-> Append(reg, val), handle |-> Len(reg) + 1]

add(reg, val) == [reg |-> Append(reg, val), handle |-> Len(reg)]

get(reg, handle) == IF handle < Len(reg) THEN reg[handle + 1] ELSE None

Handles(reg) == 0 .. (Len(reg) - 1)

\* The label given to the builder of the next entry of a registry: the
\* registry and the ordinal of the entry in it.
NewName(regname, reg) == <<regname, Len(reg)>>

Issue(regname, handle, name) ==
    issued \cup {[registry |-> regname, handle |-> handle, name |-> name]}

(***************************************************************************)
(* Buffer                                                                  *)
(***************************************************************************)
\* Device::create_buffer: a fresh raw buffer of `size` bytes.  gen is the
\* number of raw buffers the owning Buffer made before this one.
create_buffer(label, gen, size, usage) ==
    [id |-> <<"buffer", label, gen>>, size |-> size, usage |-> usage]

\* DeviceExt::create_buffer_init as Buffer::new_init and Buffer::write_data
\* use it: a fresh raw buffer holding `contents_len` bytes.
create_buffer_init(label, gen, contents_len, usage) ==
    [id |-> <<"buffer", label, gen>>, size |-> contents_len, usage |-> usage]

\* bytemuck::cast_slice(data).len() for data: &[T] of `count` elements
byte_len(T, count) == count * size_of(T)

\* The debug_assert! of Buffer::new
Buffer_new_panics(size) == debug /\ size % MAP_ALIGNMENT # 0

Buffer_new(T, label, size, usage, vertex_format) ==
    [name |-> label,
     buffer |-> create_buffer(label, 0, size, usage),
     type_id |-> T,
     element_size |-> size_of(T),
     vertex_format |-> vertex_format]

Buffer_new_init(T, label, usage, count, vertex_format) ==
    [name |-> label,
     buffer |-> create_buffer_init(label, 0, byte_len(T, count), usage),
     type_id |-> T,
     element_size |-> size_of(T),
     vertex_format |-> vertex_format]

\* Mutant of write_data_panics: the type tag is not checked.
write_data_unchecked(self, T) == FALSE

\* Buffer::write_data panics when TypeId::of::<T>() != self.type_id
write_data_panics(self, T) == T # self.type_id

\* Mutants of write_data: (a) reallocates also when the payload fills the
\* capacity exactly; (b) reallocates but reports no structural change.
write_data_realloc_on_fit(self, T, count) ==
    IF byte_len(T, count) >= self.buffer.size
    THEN [self |-> [self EXCEPT !.buffer =
                        create_buffer_init(self.name, self.buffer.id[3] + 1,
                                           byte_len(T, count), self.buffer.usage)],
          destroyed |-> {self.buffer.id},
          result |-> TRUE]
    ELSE [self |-> self, destroyed |-> {}, result |-> FALSE]

write_data_silent_realloc(self, T, count) ==
    IF byte_len(T, count) > self.buffer.size
    THEN [self |-> [self EXCEPT !.buffer =
                        create_buffer_init(self.name, self.buffer.id[3] + 1,
                                           byte_len(T, count), self.buffer.usage)],
          destroyed |-> {self.buffer.id},
          result |-> FALSE]
    ELSE [self |-> self, destroyed |-> {}, result |-> FALSE]

\* Mutant of write_data: the raw buffer is always replaced by one of the
\* payload's size, smaller payloads included.
write_data_fits_payload(self, T, count) ==
    IF byte_len(T, count) # self.buffer.size
    THEN [self |-> [self EXCEPT !.buffer =
                        create_buffer_init(self.name, self.buffer.id[3] + 1,
                                           byte_len(T, count), self.buffer.usage)],
          destroyed |-> {self.buffer.id},
          result |-> TRUE]
    ELSE [self |-> self, destroyed |-> {}, result |-> FALSE]

\* Buffer::write_data for a payload of the buffer's own type: the buffer after
\* the write, the raw buffers destroyed by it, and the returned flag.
write_data(self, T, count) ==
    IF byte_len(T, count) > self.buffer.size
    THEN [self |-> [self EXCEPT !.buffer =
                        create_buffer_init(self.name, self.buffer.id[3] + 1,
                                           byte_len(T, count), self.buffer.usage)],
          destroyed |-> {self.buffer.id},
          result |-> TRUE]
    ELSE [self |-> self, destroyed |-> {}, result |-> FALSE]

\* Buffer::len
len(self) == self.buffer.size \div self.element_size

(***************************************************************************)
(* Texture                                                                 *)
(***************************************************************************)
FRAMEBUFFER == 0

D1(x) == [kind |-> "D1", x |-> x]
D2(x, y) == [kind |-> "D2", x |-> x, y |-> y]
D3(x, y, z) == [kind |-> "D3", x |-> x, y |-> y, z |-> z]
Surface == [kind |-> "Surface"]
\* A scale is the fraction <<numerator, denominator>>, the denominator a
\* power of two, so that the f32 product is exact before the cast.
ScaledSurface(x_scale, y_scale) ==
    [kind |-> "ScaledSurface", x_scale |-> x_scale, y_scale |-> y_scale]

\* (v as f32 * scale) as u32: the cast truncates
scaled(v, scale) == (v * scale[1]) \div scale[2]

\* TextureSize::get_size
get_size(size, cfg) ==
    CASE size.kind = "D1" -> [width |-> size.x, height |-> 1, depth_or_array_layers |-> 1]
      [] size.kind = "D2" -> [width |-> size.x, height |-> size.y, depth_or_array_layers |-> 1]
      [] size.kind = "D3" -> [width |-> size.x, height |-> size.y, depth_or_array_layers |-> size.z]
      [] size.kind = "Surface" ->
            [width |-> cfg.width, height |-> cfg.height, depth_or_array_layers |-> 1]
      [] size.kind = "ScaledSurface" ->
            [width |-> scaled(cfg.width, size.x_scale),
             height |-> scaled(cfg.height, size.y_scale),
             depth_or_array_layers |-> 1]

\* TextureSize::get_dimension
get_dimension(size) ==
    CASE size.kind = "D1" -> "D1"
      [] size.kind \in {"D2", "Surface", "ScaledSurface"} -> "D2"
      [] size.kind = "D3" -> "D3"

\* Device::create_texture: a fresh raw texture.
create_texture(label, gen, extent, dimension, format, usage) ==
    [id |-> <<"texture", label, gen>>, size |-> extent, dimension |-> dimension,
     format |-> format, usage |-> usage]

\* The if-let of Texture::on_resize: the size policy follows the surface.
surface_relative(size) == size.kind \in {"Surface", "ScaledSurface"}

\* Texture::recreate: replaces the raw texture by a fresh one of `extent`
\* and destroys the old one.
Texture_recreate(self, extent) ==
    [self |-> [self EXCEPT !.texture =
                   create_texture(self.name, self.texture.id[3] + 1, extent,
                                  get_dimension(self.size), self.texture.format,
                                  self.texture.usage)],
     destroyed |-> {self.texture.id}]

\* Mutant of on_resize: fixed-size textures are reallocated too.
on_resize_every_texture(self, cfg) ==
    LET r == Texture_recreate(self, get_size(self.size, cfg))
    IN  [self |-> r.self, destroyed |-> r.destroyed]

\* Mutant of on_resize: the extent is taken from the old raw texture.
on_resize_old_extent(self, cfg) ==
    IF surface_relative(self.size)
    THEN LET r == Texture_recreate(self, self.texture.size)
         IN  [self |-> r.self, destroyed |-> r.destroyed]
    ELSE [self |-> self, destroyed |-> {}]

\* Mutant of on_resize: a scaled texture is scaled from its own old extent.
on_resize_rescales(self, cfg) ==
    IF surface_relative(self.size)
    THEN LET r == Texture_recreate(self,
                      IF self.size.kind = "Surface" THEN get_size(self.size, cfg)
                      ELSE [width |-> scaled(self.texture.size.width, self.size.x_scale),
                            height |-> scaled(self.texture.size.height, self.size.y_scale),
                            depth_or_array_layers |-> 1])
         IN  [self |-> r.self, destroyed |-> r.destroyed]
    ELSE [self |-> self, destroyed |-> {}]

\* Texture::on_resize
on_resize(self, cfg) ==
    IF surface_relative(self.size)
    THEN LET r == Texture_recreate(self, get_size(self.size, cfg))
         IN  [self |-> r.self, destroyed |-> r.destroyed]
    ELSE [self |-> self, destroyed |-> {}]

\* What RenderManager::resize tests on the value of Texture::on_resize: the
\* texture reports a structural change when it was recreated.
on_resize_changed(self) == surface_relative(self.size)

\* Mutant of Texture_resize_panics: every request is accepted.
Texture_resize_accepts_any(self, size) == FALSE

\* Texture::resize panics for a surface-relative request and for a request of
\* another dimensionality than the stored size.
Texture_resize_panics(self, size) ==
    \/ surface_relative(size)
    \/ ~ (\/ self.size.kind = "D1" /\ size.kind = "D1"
          \/ self.size.kind = "D2" /\ size.kind = "D2"
          \/ self.size.kind = "D3" /\ size.kind = "D3")

\* Texture::resize when it does not panic: the stored size is replaced.
Texture_resize(self, size) == [self EXCEPT !.size = size]

resize_1d(self, width) == Texture_resize(self, D1(width))
resize_2d(self, width, height) == Texture_resize(self, D2(width, height))
resize_3d(self, width, height, depth_or_array_len) ==
    Texture_resize(self, D3(width, height, depth_or_array_len))

\* Texture::get_view as BindGroup and the executor use it: a view of the
\* texture's current raw texture.
get_view(self) == [kind |-> "TextureView", id |-> self.texture.id]

(***************************************************************************)
(* BindGroup                                                               *)
(***************************************************************************)
\* A builder call: bind_uniform_buffer::<T>, bind_storage_buffer::<T>,
\* bind_texture, bind_storage_texture or bind_sampler, with the handle it is
\* given.
BufferCall(op, T, binding, buffer) ==
    [op |-> op, T |-> T, binding |-> binding, target |-> buffer]
TextureCall(op, binding, texture) == [op |-> op, binding |-> binding, target |-> texture]
SamplerCall(binding) == [op |-> "sampler", binding |-> binding]

IsBufferCall(c) == c.op \in {"uniform", "storage"}
IsTextureCall(c) == c.op \in {"texture", "storage_texture"}

\* bind_uniform_buffer::<T> and bind_storage_buffer::<T> debug_assert! that
\* size_of::<T>() is a multiple of MAP_ALIGNMENT; bind_storage_texture reads
\* the texture's format and panics on a handle that does not resolve.
builder_panics(calls) ==
    \E i \in 1 .. Len(calls) :
        \/ /\ calls[i].op \in {"uniform", "storage"}
           /\ debug
           /\ size_of(calls[i].T) % MAP_ALIGNMENT # 0
        \/ calls[i].op = "storage_texture" /\ get(textures, calls[i].target) = None

\* The BindGroupLayoutEntry each call pushes.
layout_entry(c) ==
    CASE c.op = "uniform" -> [binding |-> c.binding, ty |-> "Buffer:Uniform"]
      [] c.op = "storage" -> [binding |-> c.binding, ty |-> "Buffer:Storage"]
      [] c.op = "texture" -> [binding |-> c.binding, ty |-> "Texture"]
      [] c.op = "storage_texture" ->
            [binding |-> c.binding, ty |-> "StorageTexture",
             format |-> get(textures, c.target).texture.format]
      [] c.op = "sampler" -> [binding |-> c.binding, ty |-> "Sampler"]

builder_entries(calls) == [i \in 1 .. Len(calls) |-> layout_entry(calls[i])]

\* self.buffers / self.textures of the builder: (binding, handle) per call,
\* in call order.  bind_sampler pushes nothing onto self.samplers.
builder_buffers(calls) ==
    LET cs == SelectSeq(calls, IsBufferCall)
    IN  [i \in 1 .. Len(cs) |-> <<cs[i].binding, cs[i].target>>]

builder_textures(calls) ==
    LET cs == SelectSeq(calls, IsTextureCall)
    IN  [i \in 1 .. Len(cs) |-> <<cs[i].binding, cs[i].target>>]

builder_samplers(calls) == <<>>

\* BindGroupEntry for a buffer: as_entire_buffer_binding of the raw buffer
buffer_entry(binding, buffer) ==
    [binding |-> binding, resource |-> [kind |-> "Buffer", id |-> buffer.buffer.id]]

\* BindGroupEntry for a texture: a view of the raw texture
texture_entry(binding, texture) ==
    [binding |-> binding, resource |-> get_view(texture)]

\* The expect()s and the todo!() of BindGroup::new and BindGroup::recreate
resolve_panics(bufs, texs, smps, buffer_reg, texture_reg) ==
    \/ \E i \in 1 .. Len(bufs) : get(buffer_reg, bufs[i][2]) = None
    \/ \E i \in 1 .. Len(texs) : get(texture_reg, texs[i][2]) = None
    \/ Len(smps) > 0

\* BindGroup::new: entries for the buffers, then for the textures.
BindGroup_new(name, layout, bufs, texs, smps, buffer_reg, texture_reg) ==
    [name |-> name,
     layout |-> layout,
     bind_group |->
        [i \in 1 .. Len(bufs) |-> buffer_entry(bufs[i][1], get(buffer_reg, bufs[i][2]))]
        \o [i \in 1 .. Len(texs) |-> texture_entry(texs[i][1], get(texture_reg, texs[i][2]))],
     buffers |-> bufs,
     textures |-> texs,
     samplers |-> smps]

\* Mutant of depends_texture: only the first texture binding is looked at.
depends_texture_first_only(self, texture) ==
    Len(self.textures) > 0 /\ self.textures[1][2] = texture

depends_texture(self, texture) ==
    \E i \in 1 .. Len(self.textures) : self.textures[i][2] = texture

\* Mutant of depends_buffer: only the first buffer binding is looked at.
depends_buffer_first_only(self, buffer) ==
    Len(self.buffers) > 0 /\ self.buffers[1][2] = buffer

depends_buffer(self, buffer) ==
    \E i \in 1 .. Len(self.buffers) : self.buffers[i][2] = buffer

\* Mutant of recreate: only the buffer entries are resolved again, the
\* texture entries are kept from the old instantiation.
recreate_buffers_only(self, buffer_reg, texture_reg) ==
    [self EXCEPT !.bind_group =
        [i \in 1 .. Len(self.buffers) |->
            buffer_entry(self.buffers[i][1], get(buffer_reg, self.buffers[i][2]))]
        \o SubSeq(self.bind_group, Len(self.buffers) + 1, Len(self.bind_group))]

\* Mutant of recreate: the new entries are pushed after the old ones.
recreate_keeps_entries(self, buffer_reg, texture_reg) ==
    [self EXCEPT !.bind_group =
        self.bind_group
        \o [i \in 1 .. Len(self.buffers) |->
               buffer_entry(self.buffers[i][1], get(buffer_reg, self.buffers[i][2]))]
        \o [i \in 1 .. Len(self.textures) |->
               texture_entry(self.textures[i][1], get(texture_reg, self.textures[i][2]))]]

\* BindGroup::recreate: a new instantiation from the handles the bind group
\* stores, resolved in the registries as they are now.
recreate(self, buffer_reg, texture_reg) ==
    [self EXCEPT !.bind_group =
        [i \in 1 .. Len(self.buffers) |->
            buffer_entry(self.buffers[i][1], get(buffer_reg, self.buffers[i][2]))]
        \o [i \in 1 .. Len(self.textures) |->
               texture_entry(self.textures[i][1], get(texture_reg, self.textures[i][2]))]]

(***************************************************************************)
(* RenderManager: state after RenderManager::new                           *)
(***************************************************************************)
\* Window sizes offered to resize(): <<width, height>>
SurfaceSizes == {<<2, 2>>, <<5, 3>>}

\* window.inner_size() when the context is constructed
InitialSize == <<2, 2>>

NoFrame == [acquired |-> FALSE, encoders |-> 0, cmds |-> <<>>,
            submitted |-> 0, presented |-> 0, calls |-> <<>>]

NoRebuild == [g \in 1 .. Len(bind_groups) |-> 0]

\* The record of an operation: its result ("ok", "panic" or the error
\* returned), the handle it was given or returned (-1: none), its argument,
\* the structural-change flag it got from the resource, and per bind group
\* the number of times it called recreate on it.
OutcomeOf(op, result, handle, arg, changed, rebuilt) ==
    [op |-> op, result |-> result, handle |-> handle, arg |-> arg,
     changed |-> changed, rebuilt |-> rebuilt]

Outcome(op, result, handle, changed, rebuilt) ==
    OutcomeOf(op, result, handle, None, changed, rebuilt)

PassManager_new == [render_passes |-> <<>>, compute_passes |-> <<>>,
                    ordered_passes |-> <<>>]

Init ==
    /\ debug \in BOOLEAN
    /\ status = "running"
    /\ config = [width |-> InitialSize[1], height |-> InitialSize[2]]
    /\ buffers = <<>>
    /\ textures = <<>>
    /\ samplers = <<>>
    /\ bind_groups = <<>>
    /\ shaders = <<>>
    /\ render_pipelines = <<>>
    /\ compute_pipelines = <<>>
    /\ render_passes = <<>>
    /\ compute_passes = <<>>
    /\ passes = PassManager_new
    /\ destroyed = {}
    /\ issued = {}
    /\ frame = NoFrame
    /\ last = Outcome("new", "ok", -1, FALSE, <<>>)

\* A panic unwinds out of the operation: nothing the operation had not yet
\* stored is kept, and the context is used no further.
PanicOf(op, handle, arg) ==
    /\ status' = "panicked"
    /\ last' = OutcomeOf(op, "panic", handle, arg, FALSE, NoRebuild)
    /\ UNCHANGED <<debug, config, registries, destroyed, issued, frame>>

Panic(op, handle) == PanicOf(op, handle, None)

(***************************************************************************)
(* Buffers                                                                 *)
(***************************************************************************)
\* BufferBuilder::build(count)
BuildBuffer(T, usage, vertex_format, count) ==
    /\ status = "running"
    /\ LET size == count * size_of(T)
       IN  IF Buffer_new_panics(size)
           THEN Panic("buffer_build", -1)
           ELSE LET r == add(buffers, Buffer_new(T, NewName("buffers", buffers), size, usage, vertex_format))
                IN  /\ buffers' = r.reg
                    /\ issued' = Issue("buffers", r.handle, NewName("buffers", buffers))
                    /\ last' = Outcome("buffer_build", "ok", r.handle, FALSE, NoRebuild)
                    /\ UNCHANGED <<debug, status, config, textures, samplers,
                                   bind_groups, shaders, render_pipelines,
                                   compute_pipelines, render_passes,
                                   compute_passes, passes, destroyed, frame>>

\* BufferBuilder::build_init(init_data), init_data of `count` elements
BuildBufferInit(T, usage, vertex_format, count) ==
    /\ status = "running"
    /\ LET r == add(buffers, Buffer_new_init(T, NewName("buffers", buffers), usage, count, vertex_format))
       IN  /\ buffers' = r.reg
           /\ issued' = Issue("buffers", r.handle, NewName("buffers", buffers))
           /\ last' = Outcome("buffer_build_init", "ok", r.handle, FALSE, NoRebuild)
           /\ UNCHANGED <<debug, status, config, textures, samplers, bind_groups,
                          shaders, render_pipelines, compute_pipelines,
                          render_passes, compute_passes, passes, destroyed, frame>>

\* The loop of write_to_buffer over the bind groups that depend on `buffer`
write_cascade(groups, buffer, buffer_reg, texture_reg) ==
    [g \in 1 .. Len(groups) |->
        IF depends_buffer(groups[g], buffer)
        THEN recreate(groups[g], buffer_reg, texture_reg)
        ELSE groups[g]]

write_rebuilt(groups, buffer) ==
    [g \in 1 .. Len(groups) |-> IF depends_buffer(groups[g], buffer) THEN 1 ELSE 0]

\* RenderManager::write_to_buffer(buffer, data), data: &[T] of `count` elements
WriteToBuffer(buffer, T, count) ==
    /\ status = "running"
    /\ IF get(buffers, buffer) = None \/ write_data_panics(get(buffers, buffer), T)
       THEN PanicOf("write_to_buffer", buffer, [T |-> T, count |-> count])
       ELSE LET w == write_data(get(buffers, buffer), T, count)
                bufs == [buffers EXCEPT ![buffer + 1] = w.self]
            IN  /\ buffers' = bufs
                /\ destroyed' = destroyed \cup w.destroyed
                /\ bind_groups' = IF w.result
                                  THEN write_cascade(bind_groups, buffer, bufs, textures)
                                  ELSE bind_groups
                /\ last' = OutcomeOf("write_to_buffer", "ok", buffer,
                                     [T |-> T, count |-> count], w.result,
                                     IF w.result THEN write_rebuilt(bind_groups, buffer)
                                     ELSE NoRebuild)
                /\ UNCHANGED <<debug, status, config, textures, samplers, shaders,
                               render_pipelines, compute_pipelines, render_passes,
                               compute_passes, passes, issued, frame>>

(***************************************************************************)
(* Textures                                                                *)
(***************************************************************************)
TexTypes == {"u8x4", "f32"}

\* TextureContents::FORMAT
FORMAT(T) == CASE T = "u8x4" -> "Rgba8Uint"
               [] T = "f32" -> "R32Float"

\* TextureBuilder::build; size is None when no size_* method was called
BuildTexture(T, size) ==
    /\ status = "running"
    /\ IF size = None
       THEN Panic("texture_build", -1)
       ELSE LET r == add(textures,
                         [name |-> NewName("textures", textures),
                          texture |-> create_texture(NewName("textures", textures), 0, get_size(size, config),
                                                     get_dimension(size), FORMAT(T), {}),
                          size |-> size,
                          mip_level_count |-> 1,
                          sample_count |-> 1,
                          data_type |-> T])
            IN  /\ textures' = r.reg
                /\ issued' = Issue("textures", r.handle, NewName("textures", textures))
                /\ last' = Outcome("texture_build", "ok", r.handle, FALSE, NoRebuild)
                /\ UNCHANGED <<debug, status, config, buffers, samplers, bind_groups,
                               shaders, render_pipelines, compute_pipelines,
                               render_passes, compute_passes, passes, destroyed,
                               frame>>

\* Texture::resize_1d / resize_2d / resize_3d on the texture of a handle;
\* dims is <<width>>, <<width, height>> or <<width, height, depth>>.
ResizeTexture(texture, dims) ==
    /\ status = "running"
    /\ get(textures, texture) # None
    /\ LET self == get(textures, texture)
           size == CASE Len(dims) = 1 -> D1(dims[1])
                     [] Len(dims) = 2 -> D2(dims[1], dims[2])
                     [] Len(dims) = 3 -> D3(dims[1], dims[2], dims[3])
       IN  IF Texture_resize_panics(self, size)
           THEN PanicOf("texture_resize", texture, dims)
           ELSE /\ textures' = [textures EXCEPT ![texture + 1] =
                                   CASE Len(dims) = 1 -> resize_1d(self, dims[1])
                                     [] Len(dims) = 2 -> resize_2d(self, dims[1], dims[2])
                                     [] Len(dims) = 3 ->
                                            resize_3d(self, dims[1], dims[2], dims[3])]
                /\ last' = OutcomeOf("texture_resize", "ok", texture, dims, FALSE, NoRebuild)
                /\ UNCHANGED <<debug, status, config, buffers, samplers, bind_groups,
                               shaders, render_pipelines, compute_pipelines,
                               render_passes, compute_passes, passes, destroyed,
                               issued, frame>>

(***************************************************************************)
(* Bind groups                                                             *)
(***************************************************************************)
\* BindGroupBuilder: the bind_* calls in `calls`, then build()
BuildBindGroup(calls) ==
    /\ status = "running"
    /\ IF \/ builder_panics(calls)
          \/ resolve_panics(builder_buffers(calls), builder_textures(calls),
                            builder_samplers(calls), buffers, textures)
       THEN Panic("bind_group_build", -1)
       ELSE LET r == add(bind_groups,
                         BindGroup_new(NewName("bind_groups", bind_groups), builder_entries(calls),
                                       builder_buffers(calls), builder_textures(calls),
                                       builder_samplers(calls), buffers, textures))
            IN  /\ bind_groups' = r.reg
                /\ issued' = Issue("bind_groups", r.handle, NewName("bind_groups", bind_groups))
                /\ last' = Outcome("bind_group_build", "ok", r.handle, FALSE,
                                   NoRebuild \o <<0>>)
                /\ UNCHANGED <<debug, status, config, buffers, textures, samplers,
                               shaders, render_pipelines, compute_pipelines,
                               render_passes, compute_passes, passes, destroyed,
                               frame>>

(***************************************************************************)
(* Resize                                                                  *)
(***************************************************************************)
\* The first loop of RenderManager::resize: on_resize of every texture
resized_textures(texture_reg, cfg) ==
    [i \in 1 .. Len(texture_reg) |-> on_resize(texture_reg[i], cfg).self]

resize_destroyed(texture_reg, cfg) ==
    UNION {on_resize(texture_reg[i], cfg).destroyed : i \in 1 .. Len(texture_reg)}

\* updated_textures: the indices i (0-based) with on_resize true, ascending
RECURSIVE updated_textures(_, _, _)
updated_textures(texture_reg, cfg, i) ==
    IF i >= Len(texture_reg) THEN <<>>
    ELSE (IF on_resize_changed(texture_reg[i + 1]) THEN <<i>> ELSE <<>>)
         \o updated_textures(texture_reg, cfg, i + 1)

\* Mutant of resize_cascade: the scan stops after the first dependent group.
RECURSIVE resize_cascade_first_group(_, _, _, _, _)
resize_cascade_first_group(updated, groups, rebuilt, buffer_reg, texture_reg) ==
    IF updated = <<>> THEN [bind_groups |-> groups, rebuilt |-> rebuilt]
    ELSE LET t == Head(updated)
             deps == {g \in 1 .. Len(groups) : depends_texture(groups[g], t)}
             first == IF deps = {} THEN {}
                      ELSE {CHOOSE g \in deps : \A h \in deps : g <= h}
         IN  resize_cascade_first_group(
                 Tail(updated),
                 [g \in 1 .. Len(groups) |->
                     IF g \in first
                     THEN recreate(groups[g], buffer_reg, texture_reg)
                     ELSE groups[g]],
                 [g \in 1 .. Len(groups) |->
                     IF g \in first THEN rebuilt[g] + 1 ELSE rebuilt[g]],
                 buffer_reg, texture_reg)

\* The second loop of RenderManager::resize: for each updated texture, every
\* bind group that depends on it is recreated.
RECURSIVE resize_cascade(_, _, _, _, _)
resize_cascade(updated, groups, rebuilt, buffer_reg, texture_reg) ==
    IF updated = <<>> THEN [bind_groups |-> groups, rebuilt |-> rebuilt]
    ELSE LET t == Head(updated)
         IN  resize_cascade(
                 Tail(updated),
                 [g \in 1 .. Len(groups) |->
                     IF depends_texture(groups[g], t)
                     THEN recreate(groups[g], buffer_reg, texture_reg)
                     ELSE groups[g]],
                 [g \in 1 .. Len(groups) |->
                     IF depends_texture(groups[g], t) THEN rebuilt[g] + 1 ELSE rebuilt[g]],
                 buffer_reg, texture_reg)

\* Number of raw textures a texture has made so far, less one
Gen(texture) == texture.texture.id[3]

\* RenderManager::resize(size).  The record of the call notes whether the call
\* before it was a resize to the same size.
Resize(size) ==
    /\ status = "running"
    /\ LET cfg == [config EXCEPT !.width = size[1], !.height = size[2]]
           texs == resized_textures(textures, cfg)
           c == resize_cascade(updated_textures(textures, cfg, 0), bind_groups,
                               NoRebuild, buffers, texs)
       IN  /\ config' = cfg
           /\ textures' = texs
           /\ destroyed' = destroyed \cup resize_destroyed(textures, cfg)
           /\ bind_groups' = c.bind_groups
           /\ last' = OutcomeOf("resize", "ok", -1,
                                [size |-> size,
                                 repeated |-> last.op = "resize"
                                              /\ last.arg.size = size],
                                updated_textures(textures, cfg, 0) # <<>>, c.rebuilt)
           /\ UNCHANGED <<debug, status, buffers, samplers, shaders,
                          render_pipelines, compute_pipelines, render_passes,
                          compute_passes, passes, issued, frame>>

\* RenderManager::recreate: the surface is configured again as it is
Recreate ==
    /\ status = "running"
    /\ last' = Outcome("recreate", "ok", -1, FALSE, NoRebuild)
    /\ UNCHANGED <<debug, status, config, registries, destroyed, issued, frame>>

(***************************************************************************)
(* Shaders, samplers, pipelines, passes                                    *)
(***************************************************************************)
\* RenderManager::register_shader
RegisterShader ==
    /\ status = "running"
    /\ LET r == add(shaders, [name |-> NewName("shaders", shaders)])
       IN  /\ shaders' = r.reg
           /\ issued' = Issue("shaders", r.handle, NewName("shaders", shaders))
           /\ last' = Outcome("register_shader", "ok", r.handle, FALSE, NoRebuild)
           /\ UNCHANGED <<debug, status, config, buffers, textures, samplers,
                          bind_groups, render_pipelines, compute_pipelines,
                          render_passes, compute_passes, passes, destroyed, frame>>

\* TextureSamplerBuilder::build
BuildSampler ==
    /\ status = "running"
    /\ LET r == add(samplers, [name |-> NewName("samplers", samplers)])
       IN  /\ samplers' = r.reg
           /\ issued' = Issue("samplers", r.handle, NewName("samplers", samplers))
           /\ last' = Outcome("sampler_build", "ok", r.handle, FALSE, NoRebuild)
           /\ UNCHANGED <<debug, status, config, buffers, textures, bind_groups,
                          shaders, render_pipelines, compute_pipelines,
                          render_passes, compute_passes, passes, destroyed, frame>>

is_strip(topology) == topology \in {"LineStrip", "TriangleStrip"}

\* The expect()s, unwrap()s and panic!s of RenderPipelineBuilder::build.
\* b is the builder: its Option fields are None until their method is called.
render_pipeline_build_panics(b) ==
    \/ \E i \in 1 .. Len(b.bind_groups) : get(bind_groups, b.bind_groups[i]) = None
    \/ b.vertex_shader = None
    \/ b.fragment_shader # None /\ get(shaders, b.fragment_shader.some) = None
    \/ get(shaders, b.vertex_shader.some) = None
    \/ \E i \in 1 .. Len(b.vertex_buffers) :
          \/ get(buffers, b.vertex_buffers[i]) = None
          \/ get(buffers, b.vertex_buffers[i]).vertex_format = None
    \/ \E i \in 1 .. Len(b.instance_buffers) :
          \/ get(buffers, b.instance_buffers[i]) = None
          \/ get(buffers, b.instance_buffers[i]).vertex_format = None
    \/ b.topology = None
    \/ /\ is_strip(b.topology.some)
       /\ b.index_buffer # None
       /\ get(buffers, b.index_buffer.some) = None
    \/ b.front_face = None

\* Mutant of raw_render_pipeline: the instance layouts come first
raw_render_pipeline_instance_first(b) ==
    [layout |-> [i \in 1 .. Len(b.bind_groups) |-> get(bind_groups, b.bind_groups[i]).layout],
     buffers |-> [i \in 1 .. Len(b.instance_buffers) |->
                     get(buffers, b.instance_buffers[i]).vertex_format]
                 \o [i \in 1 .. Len(b.vertex_buffers) |->
                        get(buffers, b.vertex_buffers[i]).vertex_format],
     topology |-> b.topology.some,
     front_face |-> b.front_face.some,
     cull_mode |-> b.culling,
     polygon_mode |-> b.polygon_mode,
     depth_stencil |-> b.depth_stencil]

\* The RawRenderPipeline: what create_render_pipeline was given
raw_render_pipeline(b) ==
    [layout |-> [i \in 1 .. Len(b.bind_groups) |-> get(bind_groups, b.bind_groups[i]).layout],
     buffers |-> [i \in 1 .. Len(b.vertex_buffers) |->
                     get(buffers, b.vertex_buffers[i]).vertex_format]
                 \o [i \in 1 .. Len(b.instance_buffers) |->
                        get(buffers, b.instance_buffers[i]).vertex_format],
     topology |-> b.topology.some,
     front_face |-> b.front_face.some,
     cull_mode |-> b.culling,
     polygon_mode |-> b.polygon_mode,
     depth_stencil |-> b.depth_stencil]

\* RenderPipelineBuilder::build
BuildRenderPipeline(b) ==
    /\ status = "running"
    /\ IF render_pipeline_build_panics(b)
       THEN Panic("render_pipeline_build", -1)
       ELSE LET r == add(render_pipelines,
                         [name |-> NewName("render_pipelines", render_pipelines),
                          pipeline |-> raw_render_pipeline(b),
                          vertex_buffers |-> b.vertex_buffers,
                          instance_buffers |-> b.instance_buffers,
                          index_buffers |-> b.index_buffer,
                          bind_groups |-> b.bind_groups])
            IN  /\ render_pipelines' = r.reg
                /\ issued' = Issue("render_pipelines", r.handle, NewName("render_pipelines", render_pipelines))
                /\ last' = Outcome("render_pipeline_build", "ok", r.handle, FALSE,
                                   NoRebuild)
                /\ UNCHANGED <<debug, status, config, buffers, textures, samplers,
                               bind_groups, shaders, compute_pipelines,
                               render_passes, compute_passes, passes, destroyed,
                               frame>>

\* The expect()s of ComputePipelineBuilder::build
compute_pipeline_build_panics(b) ==
    \/ \E i \in 1 .. Len(b.bind_groups) : get(bind_groups, b.bind_groups[i]) = None
    \/ b.shader = None
    \/ get(shaders, b.shader.some) = None
    \/ b.work_groups = None

\* ComputePipelineBuilder::build
BuildComputePipeline(b) ==
    /\ status = "running"
    /\ IF compute_pipeline_build_panics(b)
       THEN Panic("compute_pipeline_build", -1)
       ELSE LET r == add(compute_pipelines,
                         [name |-> NewName("compute_pipelines", compute_pipelines),
                          pipeline |-> [layout |-> [i \in 1 .. Len(b.bind_groups) |->
                                           get(bind_groups, b.bind_groups[i]).layout]],
                          bind_groups |-> b.bind_groups,
                          work_groups |-> b.work_groups.some])
            IN  /\ compute_pipelines' = r.reg
                /\ issued' = Issue("compute_pipelines", r.handle, NewName("compute_pipelines", compute_pipelines))
                /\ last' = Outcome("compute_pipeline_build", "ok", r.handle, FALSE,
                                   NoRebuild)
                /\ UNCHANGED <<debug, status, config, buffers, textures, samplers,
                               bind_groups, shaders, render_pipelines,
                               render_passes, compute_passes, passes, destroyed,
                               frame>>

\* Mutant of PassManager_add_compute_pass: compute passes are ordered before
\* every pass declared so far.
PassManager_add_compute_pass_first(self, handle) ==
    [self EXCEPT !.ordered_passes = <<<<Len(self.compute_passes), "Compute">>>> \o @,
                 !.compute_passes = Append(@, handle)]

\* PassManager::add_render_pass / add_compute_pass
PassManager_add_render_pass(self, handle) ==
    [self EXCEPT !.ordered_passes = Append(@, <<Len(self.render_passes), "Render">>),
                 !.render_passes = Append(@, handle)]

PassManager_add_compute_pass(self, handle) ==
    [self EXCEPT !.ordered_passes = Append(@, <<Len(self.compute_passes), "Compute">>),
                 !.compute_passes = Append(@, handle)]

\* LoadOp::Load and LoadOp::Clear(color)
Load == <<"Load">>
Clear(color) == <<"Clear", color>>

\* Operations with LoadOp::Load and store enabled
LoadStore == [load |-> Load, store |-> TRUE]

\* RenderPassBuilder::add_color_attachment on the attachments added so far;
\* clear_color is None or Some(color)
add_color_attachment(color_attachments, texture, clear_color, store) ==
    Append(color_attachments,
           <<texture, [load |-> IF clear_color = None THEN Load
                                ELSE Clear(clear_color.some),
                       store |-> store]>>)

\* Mutant of render_pass_attachments: the default attachment is always put
\* first.
render_pass_attachments_default_first(color_attachments) ==
    <<<<FRAMEBUFFER, LoadStore>>>> \o color_attachments

\* RenderPassBuilder::build: the default attachment when none was added
render_pass_attachments(color_attachments) ==
    IF color_attachments = <<>> THEN <<<<FRAMEBUFFER, LoadStore>>>>
    ELSE color_attachments

\* RenderManager::add_render_pass(pass): the pass is registered as it is
\* given.  op and arg record the call that handed it over.
add_render_pass(op, arg, color_attachments, depth_attachments, pipelines) ==
    /\ status = "running"
    /\ LET r == add(render_passes,
                    [name |-> NewName("render_passes", render_passes),
                     color_attachments |-> color_attachments,
                     depth_attachments |-> depth_attachments,
                     pipelines |-> pipelines])
       IN  /\ render_passes' = r.reg
           /\ passes' = PassManager_add_render_pass(passes, r.handle)
           /\ issued' = Issue("render_passes", r.handle, NewName("render_passes", render_passes))
           /\ last' = OutcomeOf(op, "ok", r.handle, arg, FALSE, NoRebuild)
           /\ UNCHANGED <<debug, status, config, buffers, textures, samplers,
                          bind_groups, shaders, render_pipelines, compute_pipelines,
                          compute_passes, destroyed, frame>>

\* RenderManager::add_render_pass called with a RenderPass made by hand (its
\* fields are public): no default attachment is added
AddRenderPass(color_attachments, depth_attachments, pipelines) ==
    add_render_pass("add_render_pass", [color_attachments |-> color_attachments],
                    color_attachments, depth_attachments, pipelines)

\* RenderPassBuilder::build, through RenderManager::add_render_pass
BuildRenderPass(color_attachments, depth_attachments, pipelines) ==
    add_render_pass("render_pass_build", [color_attachments |-> color_attachments],
                    render_pass_attachments(color_attachments), depth_attachments,
                    pipelines)

\* ComputePassBuilder::build, through RenderManager::add_compute_pass
BuildComputePass(pipelines) ==
    /\ status = "running"
    /\ LET r == add(compute_passes, [name |-> NewName("compute_passes", compute_passes), pipelines |-> pipelines])
       IN  /\ compute_passes' = r.reg
           /\ passes' = PassManager_add_compute_pass(passes, r.handle)
           /\ issued' = Issue("compute_passes", r.handle, NewName("compute_passes", compute_passes))
           /\ last' = Outcome("compute_pass_build", "ok", r.handle, FALSE, NoRebuild)
           /\ UNCHANGED <<debug, status, config, buffers, textures, samplers,
                          bind_groups, shaders, render_pipelines, compute_pipelines,
                          render_passes, destroyed, frame>>

\* RenderManager::reorder_pipelines(pass, pipelines)
ReorderPipelines(pass, pipelines) ==
    /\ status = "running"
    /\ IF \/ debug /\ \E i \in 1 .. Len(pipelines) :
                         get(render_pipelines, pipelines[i]) = None
          \/ get(render_passes, pass) = None
       THEN Panic("reorder_pipelines", pass)
       ELSE /\ render_passes' = [render_passes EXCEPT ![pass + 1].pipelines = pipelines]
            /\ last' = Outcome("reorder_pipelines", "ok", pass, FALSE, NoRebuild)
            /\ UNCHANGED <<debug, status, config, buffers, textures, samplers,
                           bind_groups, shaders, render_pipelines, compute_pipelines,
                           compute_passes, passes, destroyed, issued, frame>>

(***************************************************************************)
(* Frame executor                                                          *)
(***************************************************************************)
\* Commands recorded so far, and whether recording ended in a panic
Rec(cmds, panic) == [cmds |-> cmds, panic |-> panic]

\* `as u32`: a cast that changes no value below 2^32, and every length of the
\* buffers explored here is far below it.
AsU32(x) == x

\* What follows a recording step: nothing when the step panicked, else the
\* commands of the steps after it
AndThen(first, rest) ==
    IF first.panic THEN Rec(first.cmds, TRUE)
    ELSE Rec(first.cmds \o rest.cmds, rest.panic)

\* Mutant of set_bind_group: every bind group is bound at slot 0.
set_bind_group_slot_zero(i, bind_group) ==
    IF bind_group = None THEN Rec(<<>>, TRUE)
    ELSE Rec(<<[cmd |-> "set_bind_group", index |-> 0,
                bind_group |-> bind_group.bind_group]>>, FALSE)

\* One set_bind_group call; the expect() panics when the handle resolves to
\* no bind group
set_bind_group(i, bind_group) ==
    IF bind_group = None THEN Rec(<<>>, TRUE)
    ELSE Rec(<<[cmd |-> "set_bind_group", index |-> AsU32(i),
                bind_group |-> bind_group.bind_group]>>, FALSE)

\* Mutant of bind_group_cmds: the list is walked from its end, the last
\* group bound at slot 0.
RECURSIVE bind_group_cmds_reversed(_, _)
bind_group_cmds_reversed(groups, i) ==
    IF i >= Len(groups) THEN Rec(<<>>, FALSE)
    ELSE AndThen(set_bind_group(i, get(bind_groups, groups[Len(groups) - i])),
                 bind_group_cmds_reversed(groups, i + 1))

\* The set_bind_group loop of run_render_pass and run_compute_pass
RECURSIVE bind_group_cmds(_, _)
bind_group_cmds(groups, i) ==
    IF i >= Len(groups) THEN Rec(<<>>, FALSE)
    ELSE AndThen(set_bind_group(i, get(bind_groups, groups[i + 1])),
                 bind_group_cmds(groups, i + 1))

\* The commands of a loop with `cmds` put before them
after_cmds(cmds, rest) == [rest EXCEPT !.cmds = cmds \o @]

\* A set_vertex_buffer loop of run_render_pass over `handles` from position i,
\* the buffer of position i bound at slot i + slot0; size is the length of
\* the first buffer seen (None before), which debug_assert! compares the
\* others with.
RECURSIVE vertex_buffer_cmds(_, _, _, _)
\* The body of the loop for `buffer`, the entry of handles[i + 1]
vertex_buffer_step(buffer, handles, i, slot0, size) ==
    IF buffer = None THEN [cmds |-> <<>>, panic |-> TRUE, size |-> size]
    ELSE IF size # None /\ debug /\ size.some # len(buffer)
    THEN [cmds |-> <<>>, panic |-> TRUE, size |-> size]
    ELSE after_cmds(<<[cmd |-> "set_vertex_buffer", slot |-> AsU32(i + slot0),
                       buffer |-> buffer.buffer.id]>>,
                    vertex_buffer_cmds(handles, i + 1, slot0,
                                       IF size = None THEN Some(len(buffer)) ELSE size))

vertex_buffer_cmds(handles, i, slot0, size) ==
    IF i >= Len(handles) THEN [cmds |-> <<>>, panic |-> FALSE, size |-> size]
    ELSE vertex_buffer_step(get(buffers, handles[i + 1]), handles, i, slot0, size)

unwrap_or(opt, default) == IF opt = None THEN default ELSE opt.some

\* The index format match of run_render_pass: size / len of the index buffer
index_format_panics(idx_buffer) ==
    \/ len(idx_buffer) = 0
    \/ idx_buffer.buffer.size \div len(idx_buffer) \notin {2, 4}

index_format(idx_buffer) ==
    IF idx_buffer.buffer.size \div len(idx_buffer) = 2 THEN "Uint16" ELSE "Uint32"

\* Mutant of indexed_draw: the instance range is always 0 .. 1.
indexed_draw_single_instance(idx_buffer, v, n) ==
    AndThen(Rec(<<[cmd |-> "set_index_buffer", buffer |-> idx_buffer.buffer.id,
                   format |-> index_format(idx_buffer)]>>, FALSE),
            AndThen(v,
                    AndThen(n,
                            Rec(<<[cmd |-> "draw_indexed",
                                   indices |-> <<0, AsU32(len(idx_buffer))>>,
                                   base_vertex |-> 0,
                                   instances |-> <<0, 1>>]>>,
                                FALSE))))

\* set_index_buffer, the vertex loop v, the instance loop n and draw_indexed
indexed_draw(idx_buffer, v, n) ==
    AndThen(Rec(<<[cmd |-> "set_index_buffer", buffer |-> idx_buffer.buffer.id,
                   format |-> index_format(idx_buffer)]>>, FALSE),
            AndThen(v,
                    AndThen(n,
                            Rec(<<[cmd |-> "draw_indexed",
                                   indices |-> <<0, AsU32(len(idx_buffer))>>,
                                   base_vertex |-> 0,
                                   instances |-> <<0, AsU32(unwrap_or(n.size, 1))>>]>>,
                                FALSE))))

\* The branch of run_render_pass for a pipeline with the index buffer
\* idx_buffer
indexed_draw_cmds(pipeline, idx_buffer) ==
    IF idx_buffer = None THEN Rec(<<>>, TRUE)
    ELSE IF index_format_panics(idx_buffer) THEN Rec(<<>>, TRUE)
    ELSE indexed_draw(idx_buffer,
                      vertex_buffer_cmds(pipeline.vertex_buffers, 0, 0, None),
                      vertex_buffer_cmds(pipeline.instance_buffers, 0,
                                         Len(pipeline.vertex_buffers), None))

\* The vertex loop v and the draw of a pipeline without index buffer
plain_draw(v) ==
    AndThen(v, Rec(<<[cmd |-> "draw",
                      vertices |-> <<0, AsU32(unwrap_or(v.size, 1))>>,
                      instances |-> <<0, 1>>]>>, FALSE))

\* The branch of run_render_pass for a pipeline without index buffer
plain_draw_cmds(pipeline) ==
    plain_draw(vertex_buffer_cmds(pipeline.vertex_buffers, 0, 0, None))

\* The body of the pipeline loop of run_render_pass for `pipeline`, the entry
\* of the handle
render_pipeline_cmds(pipeline) ==
    IF pipeline = None THEN Rec(<<>>, TRUE)
    ELSE AndThen(Rec(<<[cmd |-> "set_pipeline", kind |-> "render",
                        pipeline |-> pipeline.name]>>, FALSE),
                 AndThen(bind_group_cmds(pipeline.bind_groups, 0),
                         IF pipeline.index_buffers # None
                         THEN indexed_draw_cmds(pipeline,
                                  get(buffers, pipeline.index_buffers.some))
                         ELSE plain_draw_cmds(pipeline)))

\* The body of the pipeline loop of run_compute_pass
compute_pipeline_cmds(pipeline) ==
    IF pipeline = None THEN Rec(<<>>, TRUE)
    ELSE AndThen(Rec(<<[cmd |-> "set_pipeline", kind |-> "compute",
                        pipeline |-> pipeline.name]>>, FALSE),
                 AndThen(bind_group_cmds(pipeline.bind_groups, 0),
                         Rec(<<[cmd |-> "dispatch_workgroups",
                                x |-> pipeline.work_groups[1],
                                y |-> pipeline.work_groups[2],
                                z |-> pipeline.work_groups[3]]>>, FALSE)))

\* A pipeline loop: the commands of each pipeline in order, up to a panic
RECURSIVE pipeline_loop(_, _, _)
pipeline_loop(handles, i, kind) ==
    IF i > Len(handles) THEN Rec(<<>>, FALSE)
    ELSE AndThen(IF kind = "render"
                 THEN render_pipeline_cmds(get(render_pipelines, handles[i]))
                 ELSE compute_pipeline_cmds(get(compute_pipelines, handles[i])),
                 pipeline_loop(handles, i + 1, kind))

\* The view of a color attachment: the surface view for FRAMEBUFFER, else
\* the view of the texture
attachment_view(texture) ==
    IF texture = FRAMEBUFFER THEN [kind |-> "SurfaceView"]
    ELSE get_view(get(textures, texture))

\* The RenderPassDescriptor of a pass
render_pass_descriptor(pass_desc) ==
    [cmd |-> "begin_render_pass",
     pass |-> pass_desc.name,
     color_attachments |->
         [i \in 1 .. Len(pass_desc.color_attachments) |->
             [view |-> attachment_view(pass_desc.color_attachments[i][1]),
              ops |-> pass_desc.color_attachments[i][2]]],
     depth_stencil_attachment |->
         IF pass_desc.depth_attachments = None THEN None
         ELSE [view |-> get_view(get(textures, pass_desc.depth_attachments.texture)),
               depth_ops |-> pass_desc.depth_attachments.depth_op,
               stencil_ops |-> pass_desc.depth_attachments.stencil_op]]

\* RenderManager::run_render_pass for pass_desc, the entry of the handle
run_render_pass(pass_desc) ==
    IF pass_desc = None THEN Rec(<<>>, TRUE)
    ELSE IF \E i \in 1 .. Len(pass_desc.color_attachments) :
               /\ pass_desc.color_attachments[i][1] # FRAMEBUFFER
               /\ get(textures, pass_desc.color_attachments[i][1]) = None
    THEN Rec(<<>>, TRUE)
    ELSE IF /\ pass_desc.depth_attachments # None
            /\ get(textures, pass_desc.depth_attachments.texture) = None
    THEN Rec(<<>>, TRUE)
    ELSE AndThen(Rec(<<render_pass_descriptor(pass_desc)>>, FALSE),
                 pipeline_loop(pass_desc.pipelines, 1, "render"))

\* RenderManager::run_compute_pass for pass_desc, the entry of the handle
run_compute_pass(pass_desc) ==
    IF pass_desc = None THEN Rec(<<>>, TRUE)
    ELSE AndThen(Rec(<<[cmd |-> "begin_compute_pass", pass |-> pass_desc.name]>>,
                     FALSE),
                 pipeline_loop(pass_desc.pipelines, 1, "compute"))

\* PassIter::next from position curr on: the PassHandles it yields until the
\* first None
RECURSIVE PassIter(_, _)
PassIter(self, curr) ==
    IF curr >= Len(self.ordered_passes) THEN <<>>
    ELSE LET i == self.ordered_passes[curr + 1][1]
             kind == self.ordered_passes[curr + 1][2]
         IN  IF kind = "Render"
             THEN (IF i < Len(self.render_passes)
                   THEN <<<<"RenderPass", self.render_passes[i + 1]>>>>
                        \o PassIter(self, curr + 1)
                   ELSE <<>>)
             ELSE (IF i < Len(self.compute_passes)
                   THEN <<<<"ComputePass", self.compute_passes[i + 1]>>>>
                        \o PassIter(self, curr + 1)
                   ELSE <<>>)

\* The pass loop of RenderManager::render
RECURSIVE pass_loop(_, _)
pass_loop(handles, i) ==
    IF i > Len(handles) THEN Rec(<<>>, FALSE)
    ELSE AndThen(IF handles[i][1] = "RenderPass"
                 THEN run_render_pass(get(render_passes, handles[i][2]))
                 ELSE run_compute_pass(get(compute_passes, handles[i][2])),
                 pass_loop(handles, i + 1))

\* Results of Surface::get_current_texture
SurfaceErrors == {"Timeout", "Outdated", "Lost", "OutOfMemory"}

\* Mutant of render_calls: the target is presented before the submission.
render_calls_present_first(r) ==
    <<"get_current_texture", "create_view", "create_command_encoder">>
    \o (IF r.panic THEN <<>> ELSE <<"passes", "finish", "present", "submit">>)

\* The calls of RenderManager::render that returned, in order, when the pass
\* loop recorded r
render_calls(r) ==
    <<"get_current_texture", "create_view", "create_command_encoder">>
    \o (IF r.panic THEN <<>> ELSE <<"passes", "finish", "submit", "present">>)

\* The end of RenderManager::render with r recorded: submit and present,
\* unless the recording panicked
Submit(r) ==
    /\ frame' = [acquired |-> TRUE, encoders |-> 1, cmds |-> r.cmds,
                 submitted |-> IF r.panic THEN 0 ELSE 1,
                 presented |-> IF r.panic THEN 0 ELSE 1,
                 calls |-> render_calls(r)]
    /\ status' = IF r.panic THEN "panicked" ELSE "running"
    /\ last' = Outcome("render", IF r.panic THEN "panic" ELSE "ok", -1, FALSE,
                       NoRebuild)
    /\ UNCHANGED <<debug, config, registries, destroyed, issued>>

\* Mutant of AcquireFailed: the command encoder is created before the target
\* is acquired.
AcquireFailed_after_encoder(op, acquire, arg) ==
    /\ frame' = [NoFrame EXCEPT !.encoders = 1]
    /\ last' = OutcomeOf(op, acquire, -1, arg, FALSE, NoRebuild)
    /\ UNCHANGED <<debug, config, registries, destroyed, issued>>

\* The `?` on get_current_texture: render returns the error `acquire` at
\* once.  op and arg record which caller saw it and what it did with it.
AcquireFailed(op, acquire, arg) ==
    /\ frame' = NoFrame
    /\ last' = OutcomeOf(op, acquire, -1, arg, FALSE, NoRebuild)
    /\ UNCHANGED <<debug, config, registries, destroyed, issued>>

\* RenderManager::render; acquire is what get_current_texture returns
Render(acquire) ==
    /\ status = "running"
    /\ IF acquire # "ok"
       THEN AcquireFailed("render", acquire, None) /\ UNCHANGED status
       ELSE Submit(pass_loop(PassIter(passes, 0), 1))

\* The match on the result of render() in the RedrawRequested handler of the
\* demo (and, arm for arm, of render_test)
demo_handling(result) ==
    CASE result \in {"OutOfMemory", "Lost"} -> "recreate"
      [] result = "Outdated" -> "Exit"
      [] result = "Timeout" -> "println"

\* The same match in the triangle example (and, arm for arm, in the cube
\* example)
triangle_handling(result) ==
    CASE result \in {"Lost", "OutOfMemory"} -> "Exit"
      [] result = "Outdated" -> "recreate"
      [] result = "Timeout" -> "println"

Callers == {"demo", "triangle"}

handling(caller, result) ==
    IF caller = "demo" THEN demo_handling(result) ELSE triangle_handling(result)

\* What the writes of a handler have done so far: the registries they left,
\* the raw buffers they destroyed, how often each bind group was recreated,
\* and whether one of them panicked
NoWrites ==
    [buffers |-> buffers, bind_groups |-> bind_groups, destroyed |-> {},
     rebuilt |-> NoRebuild, panic |-> FALSE]

\* The writes w followed by a write to `buffer` for which write_data
\* returned d
write_applied(w, buffer, d) ==
    [buffers |-> [w.buffers EXCEPT ![buffer + 1] = d.self],
     bind_groups |-> IF d.result
                     THEN write_cascade(w.bind_groups, buffer,
                                        [w.buffers EXCEPT ![buffer + 1] = d.self],
                                        textures)
                     ELSE w.bind_groups,
     destroyed |-> w.destroyed \cup d.destroyed,
     rebuilt |-> [g \in 1 .. Len(w.bind_groups) |->
                     w.rebuilt[g]
                     + (IF d.result /\ depends_buffer(w.bind_groups[g], buffer)
                        THEN 1 ELSE 0)],
     panic |-> FALSE]

\* RenderManager::write_to_buffer::<T>(buffer, data) after the writes w, data
\* of `count` elements.  A write after a panic does not happen; a handle that
\* does not resolve panics, and so does a payload type other than the
\* buffer's, before anything is written.
write_to_buffer(w, buffer, T, count) ==
    IF w.panic THEN w
    ELSE IF get(w.buffers, buffer) = None THEN [w EXCEPT !.panic = TRUE]
    ELSE IF write_data_panics(get(w.buffers, buffer), T)
    THEN [w EXCEPT !.panic = TRUE]
    ELSE write_applied(w, buffer, write_data(get(w.buffers, buffer), T, count))

\* The writes of the RedrawRequested handler before render(): the demo writes
\* &[shape_state], one TriangleUniform, and then &[fractal_state], one
\* ComputeUniform, each to the buffer handle main kept for it; the triangle
\* example writes nothing
handler_writes(caller, triangle_state_buffer, compute_buffer) ==
    IF caller = "demo"
    THEN write_to_buffer(write_to_buffer(NoWrites, triangle_state_buffer,
                                         "TriangleUniform", 1),
                         compute_buffer, "ComputeUniform", 1)
    ELSE NoWrites

\* render() and the match on its result, in the state the writes w left.
\* writes names the handles written, for the record of the call.
\* The pass loop records in that state.  recreate() reconfigures
\* the surface with the unchanged config; ControlFlow::Exit ends the event
\* loop.
redraw_render(caller, acquire, writes, w) ==
    /\ buffers' = w.buffers
    /\ bind_groups' = w.bind_groups
    /\ destroyed' = destroyed \cup w.destroyed
    /\ UNCHANGED <<debug, config, textures, samplers, shaders, render_pipelines,
                   compute_pipelines, render_passes, compute_passes, passes,
                   issued>>
    /\ IF w.panic
       THEN /\ status' = "panicked"
            /\ frame' = frame
            /\ last' = OutcomeOf("redraw", "panic", -1,
                                 [caller |-> caller, handling |-> "none",
                                  writes |-> writes],
                                 w.destroyed # {}, w.rebuilt)
       ELSE IF acquire # "ok"
       THEN /\ status' = IF handling(caller, acquire) = "Exit" THEN "exited"
                          ELSE "running"
            /\ frame' = NoFrame
            /\ last' = OutcomeOf("redraw", acquire, -1,
                                 [caller |-> caller,
                                  handling |-> handling(caller, acquire),
                                  writes |-> writes],
                                 w.destroyed # {}, w.rebuilt)
       ELSE \E r \in {pass_loop(PassIter(passes, 0), 1)'} :
               /\ status' = IF r.panic THEN "panicked" ELSE "running"
               /\ frame' = [acquired |-> TRUE, encoders |-> 1, cmds |-> r.cmds,
                            submitted |-> IF r.panic THEN 0 ELSE 1,
                            presented |-> IF r.panic THEN 0 ELSE 1,
                            calls |-> render_calls(r)]
               /\ last' = OutcomeOf("redraw", IF r.panic THEN "panic" ELSE "ok", -1,
                                    [caller |-> caller, handling |-> "none",
                                     writes |-> writes],
                                    w.destroyed # {}, w.rebuilt)

\* Event::RedrawRequested of `caller`: the handler's writes, render(), then
\* the arm of the match for its result.  triangle_state_buffer and
\* compute_buffer are the handles the demo's main kept.
RedrawRequested(caller, triangle_state_buffer, compute_buffer, acquire) ==
    /\ status = "running"
    /\ \E w \in {handler_writes(caller, triangle_state_buffer, compute_buffer)} :
          redraw_render(caller, acquire,
                        IF caller = "demo"
                        THEN <<triangle_state_buffer, compute_buffer>> ELSE <<>>,
                        w)

(***************************************************************************)
(* Inputs                                                                  *)
(***************************************************************************)
\* The runs stop resizing the surface once a surface-relative texture has
\* been reallocated MaxGen times
ResizeBounded ==
    \A i \in 1 .. Len(textures) :
       surface_relative(textures[i].size) => Gen(textures[i]) < MaxGen

\* Element types of the buffers and payloads of the resource-graph runs
GraphTypes == {"u32", "Vec2"}

UniformUsage == {"UNIFORM", "COPY_DST"}

\* Sizes a texture builder is given: one per size_* method
BuilderSizes == {D1(2), D2(2, 2), D3(2, 2, 2), Surface,
                 ScaledSurface(<<1, 2>>, <<1, 2>>)}

\* Arguments of resize_1d / resize_2d / resize_3d
ResizeDims == {<<3>>, <<2, 3>>, <<2, 2, 3>>}

\* The bind_* calls a bind group builder can be given for the operations in
\* ops: <<op, target>>, the target a handle the context has returned or the
\* public FRAMEBUFFER handle; a buffer is bound with the element type it was
\* built with
CallTargets(ops) ==
    {<<op, b>> : op \in ops \cap {"uniform", "storage"}, b \in Handles(buffers)}
    \cup {<<op, t>> : op \in ops \cap {"texture", "storage_texture"},
                      t \in Handles(textures) \cup {FRAMEBUFFER}}
    \cup {<<op, -1>> : op \in ops \cap {"sampler"}}

\* Call sequences of length n, the call at position i on binding i - 1
CallSeqs(ops, n) ==
    {[i \in 1 .. n |->
        IF c[i][1] = "sampler" THEN SamplerCall(i - 1)
        ELSE IF c[i][1] \in {"uniform", "storage"}
        THEN BufferCall(c[i][1], get(buffers, c[i][2]).type_id, i - 1, c[i][2])
        ELSE TextureCall(c[i][1], i - 1, c[i][2])] : c \in [1 .. n -> CallTargets(ops)]}

Acquisitions == {"ok"} \cup SurfaceErrors

\* The acquisitions of the resource-graph runs: a frame, or a skipped frame
GraphAcquisitions == {"ok", "Timeout"}

(***************************************************************************)
(* SpecBuffers: buffers and the bind groups over them under writes         *)
(***************************************************************************)
NextBuffers ==
    \/ \E T \in GraphTypes, count \in Counts :
          Len(buffers) < MaxBuffers /\ BuildBuffer(T, UniformUsage, None, count)
    \/ \E T \in GraphTypes, count \in Counts :
          Len(buffers) < MaxBuffers /\ BuildBufferInit(T, UniformUsage, None, count)
    \/ \E buffer \in Handles(buffers), T \in GraphTypes, count \in 0 .. MaxCount + 1 :
          WriteToBuffer(buffer, T, count)
    \/ \E n \in 0 .. MaxBindings :
          \E calls \in CallSeqs({"uniform"}, n) :
             Len(bind_groups) < MaxBindGroups /\ BuildBindGroup(calls)
    \/ \E acquire \in GraphAcquisitions : Render(acquire)

SpecBuffers == Init /\ [][NextBuffers]_vars

(***************************************************************************)
(* SpecTextures: textures and the bind groups over them under resizes      *)
(***************************************************************************)
NextTextures ==
    \/ \E size \in BuilderSizes \cup {None} :
          Len(textures) < MaxTextures /\ BuildTexture("u8x4", size)
    \/ \E texture \in Handles(textures), dims \in ResizeDims :
          ResizeTexture(texture, dims)
    \/ \E n \in 0 .. MaxBindings :
          \E calls \in CallSeqs({"texture"}, n) :
             Len(bind_groups) < MaxBindGroups /\ BuildBindGroup(calls)
    \/ \E size \in SurfaceSizes : ResizeBounded /\ Resize(size)
    \/ Recreate
    \/ \E acquire \in GraphAcquisitions : Render(acquire)

\* Nothing a texture or a resize does depends on the build profile.
InitTextures == Init /\ debug = TRUE

SpecTextures == InitTextures /\ [][NextTextures]_vars

(***************************************************************************)
(* Spec: buffers, textures and the bind groups over both, under writes and *)
(* resizes                                                                 *)
(***************************************************************************)
\* Sizes of the textures of the mixed runs: one fixed, one surface-bound
MixedSizes == {D2(2, 2), Surface}

Next ==
    \/ \E count \in Counts :
          Len(buffers) < MixedBuffers /\ BuildBuffer("Vec2", UniformUsage, None, count)
    \/ \E count \in Counts :
          Len(buffers) < MixedBuffers /\ BuildBufferInit("Vec2", UniformUsage, None, count)
    \/ \E buffer \in Handles(buffers), count \in 0 .. MaxCount + 1 :
          WriteToBuffer(buffer, "Vec2", count)
    \/ \E size \in MixedSizes :
          Len(textures) < MixedTextures /\ BuildTexture("u8x4", size)
    \/ \E n \in 0 .. MaxBindings :
          \E calls \in CallSeqs({"uniform", "texture"}, n) :
             Len(bind_groups) < MaxBindGroups /\ BuildBindGroup(calls)
    \/ \E size \in SurfaceSizes : ResizeBounded /\ Resize(size)
    \/ \E acquire \in GraphAcquisitions : Render(acquire)

Spec == InitTextures /\ [][Next]_vars

(***************************************************************************)
(* SpecRegistry: every builder of the context, with the operations that    *)
(* work on what they registered                                            *)
(***************************************************************************)
\* Render pipeline builders: vertex shader 0, a triangle list, and one of
\* the bind groups
RegistryRenderBuilders ==
    {[bind_groups |-> groups, vertex_shader |-> Some(0), fragment_shader |-> None,
      vertex_buffers |-> <<>>, instance_buffers |-> <<>>,
      topology |-> Some("TriangleList"), index_buffer |-> None,
      front_face |-> Some("Ccw"), culling |-> None, polygon_mode |-> "Fill",
      depth_stencil |-> None] :
        groups \in {<<g>> : g \in Handles(bind_groups)}}

\* Compute pipeline builders: shader 0 and one work group
RegistryComputeBuilders ==
    {[bind_groups |-> <<>>, shader |-> Some(0), work_groups |-> Some(<<1, 1, 1>>)]}

NextRegistry ==
    \/ Len(shaders) < MaxOtherEntries /\ RegisterShader
    \/ Len(samplers) < MaxOtherEntries /\ BuildSampler
    \/ Len(buffers) < MaxEntries /\ BuildBufferInit("Vec2", UniformUsage, None, 1)
    \/ \E buffer \in Handles(buffers) : WriteToBuffer(buffer, "Vec2", 2)
    \/ Len(textures) < MaxOtherEntries /\ BuildTexture("u8x4", Surface)
    \/ ResizeBounded /\ Resize(<<5, 3>>)
    \/ \E calls \in CallSeqs({"uniform"}, 1) :
          Len(bind_groups) < MaxOtherEntries /\ BuildBindGroup(calls)
    \/ \E b \in RegistryRenderBuilders :
          Len(render_pipelines) < MaxOtherEntries /\ BuildRenderPipeline(b)
    \/ \E b \in RegistryComputeBuilders :
          Len(compute_pipelines) < MaxOtherEntries /\ BuildComputePipeline(b)
    \/ Len(render_passes) < MaxEntries /\ BuildRenderPass(<<>>, None, <<>>)
    \/ \E pipelines \in {<<h>> : h \in Handles(compute_pipelines)} :
          Len(compute_passes) < MaxOtherEntries /\ BuildComputePass(pipelines)
    \/ \E pass \in Handles(render_passes) :
          \E pipelines \in {<<h>> : h \in Handles(render_pipelines)} :
             ReorderPipelines(pass, pipelines)
    \/ Render("ok")

SpecRegistry == InitTextures /\ [][NextRegistry]_vars

(***************************************************************************)
(* Properties                                                              *)
(***************************************************************************)
\* A step that is a successful write_to_buffer
WriteStep == last'.op = "write_to_buffer" /\ last'.result = "ok"

\* C2: a write_data with data of the buffer's own type returns true exactly
\* when the payload byte length exceeds the capacity the buffer had; then
\* the old raw buffer is destroyed and the new capacity is the payload byte
\* length; otherwise it returns false and the raw buffer, with its capacity,
\* is the one the buffer had.
C2_WriteReallocatesExactlyOnGrowth ==
    [][WriteStep =>
        LET old == buffers[last'.handle + 1]
            new == buffers'[last'.handle + 1]
            bytes == last'.arg.count * old.element_size
        IN  /\ last'.arg.T = old.type_id
            /\ last'.changed <=> bytes > old.buffer.size
            /\ last'.changed =>
                  /\ new.buffer.size = bytes
                  /\ new.buffer.id # old.buffer.id
                  /\ new.buffer.id \notin destroyed'
                  /\ destroyed' = destroyed \cup {old.buffer.id}
            /\ ~ last'.changed =>
                  /\ new.buffer = old.buffer
                  /\ destroyed' = destroyed]_vars

\* An in-place write to a buffer that an earlier write had reallocated
C2_Witness ==
    /\ last.op = "write_to_buffer" /\ last.result = "ok" /\ ~ last.changed
    /\ last.arg.count > 0
    /\ buffers[last.handle + 1].buffer.id[3] > 0
    /\ buffers[last.handle + 1].buffer.id[3] = Cardinality(
           {d \in destroyed : d[2] = buffers[last.handle + 1].name})

\* the bind group lists buffer b among its buffer dependencies
DependsOnBuffer(group, b) == \E i \in 1 .. Len(group.buffers) : group.buffers[i][2] = b

\* C3: write_to_buffer(B, data) has, when it returns, called recreate once on
\* every bind group whose buffer dependency list contains B if the write
\* reallocated B, so that the group's entries for B name B's new raw buffer,
\* and on no bind group if the write was in place; a bind group that does
\* not depend on B keeps its instantiation.
C3_WriteRebuildsDependents ==
    [][WriteStep =>
        /\ Len(bind_groups') = Len(bind_groups)
        /\ \A g \in 1 .. Len(bind_groups) :
              IF last'.changed /\ DependsOnBuffer(bind_groups[g], last'.handle)
              THEN /\ last'.rebuilt[g] = 1
                   /\ \A i \in 1 .. Len(bind_groups[g].buffers) :
                         bind_groups[g].buffers[i][2] = last'.handle =>
                            bind_groups'[g].bind_group[i].resource.id
                               = buffers'[last'.handle + 1].buffer.id
              ELSE /\ last'.rebuilt[g] = 0
                   /\ bind_groups'[g] = bind_groups[g]]_vars

\* A reallocating write to a buffer with one bind group that has it as its
\* second binding only and another that does not depend on it
C3_Witness ==
    /\ last.op = "write_to_buffer" /\ last.result = "ok" /\ last.changed
    /\ \E g, h \in 1 .. Len(bind_groups) :
          /\ last.rebuilt[g] = 1
          /\ Len(bind_groups[g].buffers) = 2
          /\ bind_groups[g].buffers[1][2] # last.handle
          /\ bind_groups[g].buffers[2][2] = last.handle
          /\ last.rebuilt[h] = 0
          /\ Len(bind_groups[h].buffers) > 0

\* C9: a write_to_buffer with data of another element type than the buffer
\* was built with panics; the buffer's raw buffer and capacity stay as they
\* were, nothing is destroyed and no bind group is recreated.
C9_TypeMismatchPanics ==
    [][(/\ last'.op = "write_to_buffer"
        /\ last'.arg.T # buffers[last'.handle + 1].type_id) =>
          /\ last'.result = "panic"
          /\ status' = "panicked"
          /\ buffers' = buffers
          /\ bind_groups' = bind_groups
          /\ destroyed' = destroyed
          /\ \A g \in 1 .. Len(bind_groups) : last'.rebuilt[g] = 0]_vars

\* A panicked write of more bytes than the capacity of a buffer that a bind
\* group depends on
C9_Witness ==
    /\ status = "panicked" /\ last.op = "write_to_buffer"
    /\ last.arg.T # buffers[last.handle + 1].type_id
    /\ last.arg.count * size_of(last.arg.T) > buffers[last.handle + 1].buffer.size
    /\ \E g \in 1 .. Len(bind_groups) : DependsOnBuffer(bind_groups[g], last.handle)

\* A step that is a resize notification
ResizeStep == last'.op = "resize"

\* the size policy follows the surface size
FollowsSurface(texture) == texture.size.kind \in {"Surface", "ScaledSurface"}

\* the extent a surface-relative policy gives for a surface of <<w, h>>
SurfaceExtent(size, s) ==
    IF size.kind = "Surface"
    THEN [width |-> s[1], height |-> s[2], depth_or_array_layers |-> 1]
    ELSE [width |-> (s[1] * size.x_scale[1]) \div size.x_scale[2],
          height |-> (s[2] * size.y_scale[1]) \div size.y_scale[2],
          depth_or_array_layers |-> 1]

\* the bind group lists texture t among its texture dependencies
DependsOnTexture(group, t) ==
    \E i \in 1 .. Len(group.textures) : group.textures[i][2] = t

\* every entry of the bind group's instantiation names the raw buffer or the
\* raw texture that the handle of its dependency has now, and no other entry
\* is in it
ResolvesCurrent(group, buffer_reg, texture_reg) ==
    /\ Len(group.bind_group) = Len(group.buffers) + Len(group.textures)
    /\ \A i \in 1 .. Len(group.buffers) :
          /\ group.bind_group[i].binding = group.buffers[i][1]
          /\ group.bind_group[i].resource.kind = "Buffer"
          /\ group.bind_group[i].resource.id
                = buffer_reg[group.buffers[i][2] + 1].buffer.id
    /\ \A i \in 1 .. Len(group.textures) :
          /\ group.bind_group[Len(group.buffers) + i].binding = group.textures[i][1]
          /\ group.bind_group[Len(group.buffers) + i].resource.kind = "TextureView"
          /\ group.bind_group[Len(group.buffers) + i].resource.id
                = texture_reg[group.textures[i][2] + 1].texture.id

\* C5: on a resize notification every texture whose size policy is
\* surface-bound or scaled-surface-bound gets a new raw texture of the extent
\* its policy gives for the new surface size, the old one destroyed; every
\* fixed-size texture keeps its raw texture and its extent.
C5_ResizeReallocatesSurfaceTextures ==
    [][ResizeStep =>
        /\ Len(textures') = Len(textures)
        /\ \A i \in 1 .. Len(textures) :
              IF FollowsSurface(textures[i])
              THEN /\ textures'[i].texture.id # textures[i].texture.id
                   /\ textures[i].texture.id \in destroyed'
                   /\ textures'[i].texture.id \notin destroyed'
                   /\ textures'[i].texture.size
                         = SurfaceExtent(textures[i].size, last'.arg.size)
                   /\ textures'[i].size = textures[i].size
              ELSE textures'[i] = textures[i]]_vars

\* A resize to 5 x 3 with a surface-bound, a half-scaled and no fixed-size
\* texture is not enough: here a half-scaled texture (2 x 1 after the resize)
\* stands beside a fixed-size one.
C5_Witness ==
    /\ last.op = "resize" /\ last.arg.size = <<5, 3>>
    /\ \E i, j \in 1 .. Len(textures) :
          /\ textures[i].size.kind = "ScaledSurface"
          /\ textures[i].texture.size.width = 2
          /\ textures[i].texture.size.height = 1
          /\ textures[i].texture.id[3] > 0
          /\ textures[j].size.kind = "D2"
          /\ textures[j].texture.id[3] = 0

\* C4: a resize notification recreates, before it returns, every bind group
\* that depends on a texture it reallocated, once per such texture and after
\* all textures were reallocated: the group then resolves to the new raw
\* textures.  With one surface-bound texture referenced by two bind groups
\* each of the two is recreated exactly once.  A render() recreates no bind
\* group.
C4_ResizeRebuildsOncePerTexture ==
    [][/\ ResizeStep =>
            \A g \in 1 .. Len(bind_groups) :
               /\ last'.rebuilt[g] = Cardinality(
                      {t \in Handles(textures) :
                          FollowsSurface(textures[t + 1])
                          /\ DependsOnTexture(bind_groups[g], t)})
               /\ ResolvesCurrent(bind_groups'[g], buffers', textures')
       /\ last'.op = "render" =>
            /\ bind_groups' = bind_groups
            /\ \A g \in 1 .. Len(bind_groups) : last'.rebuilt[g] = 0]_vars

\* After a resize: one surface-bound texture, its raw texture replaced,
\* referenced by two bind groups that were each recreated once
C4_Witness ==
    /\ last.op = "resize"
    /\ Len(bind_groups) = 2
    /\ Cardinality({t \in Handles(textures) : FollowsSurface(textures[t + 1])}) = 1
    /\ \E t \in Handles(textures) :
          /\ textures[t + 1].size.kind = "Surface"
          /\ textures[t + 1].texture.id[3] > 0
          /\ \A g \in 1 .. 2 :
                /\ DependsOnTexture(bind_groups[g], t)
                /\ last.rebuilt[g] = 1

\* C6: a resize to the size of the resize just before it leaves the surface
\* configuration, every texture's extent and size policy and every bind
\* group's layout and dependency lists as the first left them, and every
\* bind group resolves to the raw resources its dependencies have now.
C6_ResizeIdempotent ==
    [][(ResizeStep /\ last.op = "resize" /\ last'.arg.size = last.arg.size) =>
        /\ config' = config
        /\ Len(textures') = Len(textures)
        /\ \A i \in 1 .. Len(textures) :
              /\ textures'[i].size = textures[i].size
              /\ textures'[i].texture.size = textures[i].texture.size
        /\ Len(bind_groups') = Len(bind_groups)
        /\ \A g \in 1 .. Len(bind_groups) :
              /\ bind_groups'[g].layout = bind_groups[g].layout
              /\ bind_groups'[g].buffers = bind_groups[g].buffers
              /\ bind_groups'[g].textures = bind_groups[g].textures
              /\ ResolvesCurrent(bind_groups'[g], buffers', textures')]_vars

\* The second of two resizes to 5 x 3 with a half-scaled texture in a bind
\* group
C6_Witness ==
    /\ last.op = "resize" /\ last.arg.size = <<5, 3>> /\ last.arg.repeated
    /\ \E t \in Handles(textures) :
          /\ textures[t + 1].size.kind = "ScaledSurface"
          /\ textures[t + 1].texture.id[3] >= 2
          /\ textures[t + 1].texture.size.width = 2
          /\ \E g \in 1 .. Len(bind_groups) : DependsOnTexture(bind_groups[g], t)

\* C10: an explicit resize_1d / resize_2d / resize_3d within the texture's
\* dimensionality destroys the raw texture, makes a new one of the new extent
\* and signals a structural change.
C10_ExplicitResizeReallocates ==
    [][(last'.op = "texture_resize" /\ last'.result = "ok") =>
        /\ textures'[last'.handle + 1].texture.id # textures[last'.handle + 1].texture.id
        /\ textures[last'.handle + 1].texture.id \in destroyed'
        /\ textures'[last'.handle + 1].texture.size
              = get_size(textures'[last'.handle + 1].size, config)
        /\ last'.changed]_vars

\* C1: whenever a render() can start, every entry of every bind group's
\* instantiation names the raw buffer or raw texture its dependency has now,
\* and none names a destroyed one.
C1_BindGroupsResolveCurrent ==
    status = "running" =>
        \A g \in 1 .. Len(bind_groups) :
           /\ ResolvesCurrent(bind_groups[g], buffers, textures)
           /\ \A i \in 1 .. Len(bind_groups[g].bind_group) :
                 bind_groups[g].bind_group[i].resource.id \notin destroyed

\* A frame was rendered with a bind group over a buffer that a write has
\* reallocated and a texture that a resize has reallocated
C1_Witness ==
    /\ last.op = "render" /\ last.result = "ok"
    /\ \E g \in 1 .. Len(bind_groups) :
          /\ \E i \in 1 .. Len(bind_groups[g].buffers) :
                buffers[bind_groups[g].buffers[i][2] + 1].buffer.id[3] > 0
          /\ \E i \in 1 .. Len(bind_groups[g].textures) :
                textures[bind_groups[g].textures[i][2] + 1].texture.id[3] > 0

\* C7: no operation changes the position of a bind group in its registry, its
\* layout or its buffer and texture dependency lists; a recreate replaces the
\* instantiation only, and a recreate of a recreated bind group against the
\* same registries gives the same bind group again.
C7_RecreateKeepsIdentity ==
    [][/\ Len(bind_groups') >= Len(bind_groups)
       /\ \A g \in 1 .. Len(bind_groups) :
             /\ bind_groups'[g].layout = bind_groups[g].layout
             /\ bind_groups'[g].buffers = bind_groups[g].buffers
             /\ bind_groups'[g].textures = bind_groups[g].textures
             /\ LET once == recreate(bind_groups[g], buffers, textures)
                IN  /\ once.layout = bind_groups[g].layout
                    /\ once.buffers = bind_groups[g].buffers
                    /\ once.textures = bind_groups[g].textures
                    /\ recreate(once, buffers, textures) = once
             /\ last'.rebuilt[g] > 0 =>
                   recreate(bind_groups'[g], buffers', textures') = bind_groups'[g]]_vars

\* A bind group over a buffer and a texture was recreated by a resize
C7_Witness ==
    /\ last.op = "resize"
    /\ \E g \in 1 .. Len(bind_groups) :
          /\ last.rebuilt[g] > 0
          /\ bind_groups[g].buffers # <<>>
          /\ bind_groups[g].textures # <<>>

\* The registry of a name
RegistryOf(regname) ==
    CASE regname = "buffers" -> buffers
      [] regname = "textures" -> textures
      [] regname = "samplers" -> samplers
      [] regname = "bind_groups" -> bind_groups
      [] regname = "shaders" -> shaders
      [] regname = "render_pipelines" -> render_pipelines
      [] regname = "compute_pipelines" -> compute_pipelines
      [] regname = "render_passes" -> render_passes
      [] regname = "compute_passes" -> compute_passes

\* C8: every handle an add has returned resolves, in its registry, to the
\* entry that add stored, whatever was done since; two adds to one registry
\* have returned two handles.
C8_HandlesResolve ==
    /\ \A e \in issued :
          /\ get(RegistryOf(e.registry), e.handle) # None
          /\ get(RegistryOf(e.registry), e.handle).name = e.name
    /\ \A e1, e2 \in issued :
          (e1.registry = e2.registry /\ e1.name # e2.name) => e1.handle # e2.handle

\* Each of the nine registries has returned a handle, the buffers and the
\* render passes two; since then writes have reallocated both buffers, a
\* resize the texture, and the pipelines of both render passes were replaced
C8_Witness ==
    /\ \A regname \in {"buffers", "textures", "samplers", "bind_groups", "shaders",
                       "render_pipelines", "compute_pipelines", "render_passes",
                       "compute_passes"} :
          \E e \in issued : e.registry = regname
    /\ Cardinality({e \in issued : e.registry = "buffers"}) = 2
    /\ Cardinality({e \in issued : e.registry = "render_passes"}) = 2
    /\ \A i \in 1 .. 2 : /\ buffers[i].buffer.id[3] > 0
                         /\ render_passes[i].pipelines # <<>>
    /\ textures[1].texture.id[3] > 0

\* The dimensionality of the request of resize_1d / resize_2d / resize_3d
\* with the arguments dims
RequestedDimension(dims) ==
    CASE Len(dims) = 1 -> "D1" [] Len(dims) = 2 -> "D2" [] Len(dims) = 3 -> "D3"

\* C11: an explicit texture resize that succeeds asked for the dimensionality
\* the texture has and stores the requested size; one that asks for another
\* dimensionality panics and changes no texture; no step changes the
\* dimensionality of a texture's size or of its raw texture.
C11_ResizeKeepsDimensionality ==
    [][/\ last'.op = "texture_resize" =>
            LET old == textures[last'.handle + 1]
            IN  /\ last'.result = "ok" =>
                      /\ RequestedDimension(last'.arg) = get_dimension(old.size)
                      /\ get_size(textures'[last'.handle + 1].size, config).width
                            = last'.arg[1]
                /\ RequestedDimension(last'.arg) # get_dimension(old.size) =>
                      /\ last'.result = "panic"
                      /\ status' = "panicked"
                      /\ textures' = textures
       /\ \A i \in 1 .. Len(textures) :
             /\ get_dimension(textures'[i].size) = get_dimension(textures[i].size)
             /\ textures'[i].texture.dimension = textures[i].texture.dimension]_vars

\* A resize_1d of a 2D texture has panicked
C11_Witness ==
    /\ last.op = "texture_resize" /\ last.result = "panic"
    /\ Len(last.arg) = 1
    /\ textures[last.handle + 1].size.kind = "D2"

(***************************************************************************)
(* SpecDraw: vertex, instance and index buffers, one render pipeline over  *)
(* them in one render pass, and the frames drawn from it, in both build    *)
(* profiles                                                                *)
(***************************************************************************)
MaxDrawBuffers == 3
MaxVertices == 3

\* vertex_format::<T>(step_mode), the layout BufferBuilder::vertex and
\* BufferBuilder::instance capture
vertex_format(T, step_mode) ==
    Some([array_stride |-> size_of(T), step_mode |-> step_mode])

\* The buffer builders of the draw runs: vertex buffers of Vec2, an instance
\* buffer of Vec2, index buffers of u16 (one of them empty) and of u32
DrawBuilders ==
    {[T |-> "Vec2", usage |-> {"VERTEX"}, vertex_format |-> vertex_format("Vec2", "Vertex"),
      count |-> c] : c \in MaxVertices - 1 .. MaxVertices}
    \cup {[T |-> "Vec2", usage |-> {"VERTEX"},
           vertex_format |-> vertex_format("Vec2", "Instance"), count |-> 2]}
    \cup {[T |-> "u16", usage |-> {"INDEX"}, vertex_format |-> None, count |-> c] :
             c \in {0, 4}}
    \cup {[T |-> "u32", usage |-> {"INDEX"}, vertex_format |-> None, count |-> 1]}

\* Sequences of at most n buffer handles the context has returned
RECURSIVE HandleSeqs(_)
HandleSeqs(n) ==
    IF n = 0 THEN {<<>>}
    ELSE HandleSeqs(n - 1)
         \cup {Append(seq, h) : seq \in {q \in HandleSeqs(n - 1) : Len(q) = n - 1},
                                h \in Handles(buffers)}

\* Render pipeline builders of the draw runs: vertex shader 0, a triangle
\* list, up to two vertex buffers, up to one instance buffer and an optional
\* index buffer
DrawPipelineBuilders ==
    {[bind_groups |-> <<>>, vertex_shader |-> Some(0), fragment_shader |-> None,
      vertex_buffers |-> v, instance_buffers |-> n,
      topology |-> Some("TriangleList"), index_buffer |-> x,
      front_face |-> Some("Ccw"), culling |-> None, polygon_mode |-> "Fill",
      depth_stencil |-> None] :
        v \in HandleSeqs(2), n \in HandleSeqs(1),
        x \in {None} \cup {Some(h) : h \in Handles(buffers)}}

NextDraw ==
    \/ Len(shaders) < MaxOtherEntries /\ RegisterShader
    \/ \E b \in DrawBuilders :
          /\ Len(buffers) < MaxDrawBuffers
          /\ BuildBufferInit(b.T, b.usage, b.vertex_format, b.count)
    \/ \E b \in DrawPipelineBuilders :
          Len(render_pipelines) < MaxOtherEntries /\ BuildRenderPipeline(b)
    \/ \E pipelines \in {<<h>> : h \in Handles(render_pipelines)} :
          Len(render_passes) < MaxOtherEntries /\ BuildRenderPass(<<>>, None, pipelines)
    \/ \E acquire \in GraphAcquisitions : Render(acquire)

SpecDraw == Init /\ [][NextDraw]_vars

(***************************************************************************)
(* Properties of the recorded frame                                        *)
(***************************************************************************)
\* The last operation was a render() that acquired its target
RenderedFrame == last.op = "render" /\ frame.acquired

\* The pipelines the passes name, in the order PassIter yields the passes:
\* <<kind, entry>>, the entry None for a handle that does not resolve
RECURSIVE FramePipelines(_, _)
FramePipelines(handles, i) ==
    IF i > Len(handles) THEN <<>>
    ELSE (IF handles[i][1] = "RenderPass"
          THEN [k \in 1 .. Len(get(render_passes, handles[i][2]).pipelines) |->
                   get(render_pipelines, get(render_passes, handles[i][2]).pipelines[k])]
          ELSE [k \in 1 .. Len(get(compute_passes, handles[i][2]).pipelines) |->
                   get(compute_pipelines, get(compute_passes, handles[i][2]).pipelines[k])])
         \o FramePipelines(handles, i + 1)

WalkedPipelines == FramePipelines(PassIter(passes, 0), 1)

\* Positions of the set_pipeline commands of a recording
Starts(cmds) == {k \in 1 .. Len(cmds) : cmds[k].cmd = "set_pipeline"}

NthStart(cmds, i) ==
    CHOOSE k \in Starts(cmds) : Cardinality({j \in Starts(cmds) : j < k}) = i - 1

\* The commands recorded for the i-th pipeline bound: from its set_pipeline
\* up to the next set_pipeline or the next pass
SegmentFrom(cmds, k) ==
    LET later == {j \in k + 1 .. Len(cmds) :
                     cmds[j].cmd \in {"set_pipeline", "begin_render_pass",
                                      "begin_compute_pass"}}
    IN  SubSeq(cmds, k, IF later = {} THEN Len(cmds)
                        ELSE (CHOOSE j \in later : \A x \in later : j <= x) - 1)

Segment(cmds, i) == SegmentFrom(cmds, NthStart(cmds, i))

\* The commands of a segment that are of one of the kinds
Of(seg, kinds) == SelectSeq(seg, LAMBDA c : c.cmd \in kinds)

DrawKinds == {"draw", "draw_indexed", "dispatch_workgroups"}

\* Element counts the buffers of the handles report
ElementCounts(handles) ==
    {len(get(buffers, handles[k])) : k \in 1 .. Len(handles)}

Least(S) == CHOOSE m \in S : \A x \in S : m <= x

\* C12: a pipeline without index buffer is drawn with one non-indexed draw
\* of vertices [0, n), n the least element count among its vertex buffers,
\* or 1 when it has none.
C12_PlainDrawCoversMinimum ==
    RenderedFrame =>
       \A i \in 1 .. Cardinality(Starts(frame.cmds)) :
          WalkedPipelines[i].index_buffers = None =>
             LET draws == Of(Segment(frame.cmds, i), DrawKinds)
                 p == WalkedPipelines[i]
             IN  /\ last.result = "ok" => Len(draws) = 1
                 /\ \A d \in 1 .. Len(draws) :
                       /\ draws[d].cmd = "draw"
                       /\ draws[d].vertices =
                             <<0, IF p.vertex_buffers = <<>> THEN 1
                                  ELSE Least(ElementCounts(p.vertex_buffers))>>

\* C13: the index format bound for a pipeline with index buffer follows from
\* the element width of that buffer alone: 2 gives Uint16, 4 gives Uint32,
\* whatever the element count, and any other width ends the frame in a panic
\* with no index buffer bound.
C13_IndexFormatByWidth ==
    RenderedFrame =>
       \A i \in 1 .. Cardinality(Starts(frame.cmds)) :
          WalkedPipelines[i].index_buffers # None =>
             LET bound == Of(Segment(frame.cmds, i), {"set_index_buffer"})
                 formats == {bound[k].format : k \in 1 .. Len(bound)}
                 width == get(buffers, WalkedPipelines[i].index_buffers.some).element_size
             IN  /\ width = 2 => formats = {"Uint16"}
                 /\ width = 4 => formats = {"Uint32"}
                 /\ width \notin {2, 4} => formats = {} /\ last.result = "panic"

\* C14: a pipeline with index buffer is drawn with an indexed draw of the
\* indices [0, element count of the index buffer), base vertex 0, and the
\* instances [0, n), n the element count of the attached instance buffer or
\* 1 when none is attached; a frame that completes holds exactly one such
\* draw for it.
C14_IndexedDrawCoversIndexRange ==
    RenderedFrame =>
       \A i \in 1 .. Cardinality(Starts(frame.cmds)) :
          WalkedPipelines[i].index_buffers # None =>
             LET draws == Of(Segment(frame.cmds, i), DrawKinds)
                 p == WalkedPipelines[i]
             IN  /\ last.result = "ok" => Len(draws) = 1
                 /\ \A d \in 1 .. Len(draws) :
                       /\ draws[d].cmd = "draw_indexed"
                       /\ draws[d].indices =
                             <<0, len(get(buffers, p.index_buffers.some))>>
                       /\ draws[d].base_vertex = 0
                       /\ draws[d].instances =
                             <<0, IF p.instance_buffers = <<>> THEN 1
                                  ELSE len(get(buffers, p.instance_buffers[1]))>>

\* An indexed draw of 4 indices with an instance buffer of 2 elements was
\* recorded and submitted
C14_Witness ==
    /\ RenderedFrame /\ last.result = "ok" /\ frame.submitted = 1
    /\ \E k \in 1 .. Len(frame.cmds) :
          /\ frame.cmds[k].cmd = "draw_indexed"
          /\ frame.cmds[k].indices = <<0, 4>>
          /\ frame.cmds[k].instances = <<0, 2>>
    /\ WalkedPipelines[1].instance_buffers # <<>>

\* C15: an indexed draw is recorded for a pipeline only when its vertex
\* buffers report one element count and its instance buffers report one
\* element count.
C15_IndexedDrawChecksCounts ==
    RenderedFrame =>
       \A i \in 1 .. Cardinality(Starts(frame.cmds)) :
          Of(Segment(frame.cmds, i), {"draw_indexed"}) # <<>> =>
             /\ Cardinality(ElementCounts(WalkedPipelines[i].vertex_buffers)) <= 1
             /\ Cardinality(ElementCounts(WalkedPipelines[i].instance_buffers)) <= 1

\* C20: a render() that fails has recorded no command, and leaves every
\* registry as it was.
C20_FailureBeforeRecording ==
    [][last'.op = "render" /\ last'.result # "ok" =>
          /\ frame'.cmds = <<>>
          /\ registries' = registries]_vars

(***************************************************************************)
(* SpecPasses: render and compute passes built in any interleaving over    *)
(* pipelines with bind groups, and the frames and redraws over them        *)
(***************************************************************************)
MaxPasses == 3
MaxPipelines == 2

\* Bind group lists of the pipeline builders
PassBindGroups == {<<0>>, <<1, 0>>}

PassRenderBuilders ==
    {[bind_groups |-> groups, vertex_shader |-> Some(0), fragment_shader |-> None,
      vertex_buffers |-> <<>>, instance_buffers |-> <<>>,
      topology |-> Some("TriangleList"), index_buffer |-> None,
      front_face |-> Some("Ccw"), culling |-> None, polygon_mode |-> "Fill",
      depth_stencil |-> None] : groups \in PassBindGroups}

\* Two compute pipelines told apart by their bind group lists and their
\* workgroup counts
PassComputeBuilders ==
    {[bind_groups |-> <<0, 1>>, shader |-> Some(0), work_groups |-> Some(<<1, 2, 3>>)],
     [bind_groups |-> <<1>>, shader |-> Some(0), work_groups |-> Some(<<3, 1, 2>>)]}

NextPasses ==
    \/ Len(shaders) < MaxOtherEntries /\ RegisterShader
    \/ Len(buffers) < MaxBuffers /\ BuildBuffer("Vec2", UniformUsage, None, 1)
    \/ \E calls \in CallSeqs({"uniform"}, 1) :
          Len(bind_groups) < MaxBindGroups /\ BuildBindGroup(calls)
    \/ \E b \in PassRenderBuilders :
          Len(render_pipelines) < MaxPipelines /\ BuildRenderPipeline(b)
    \/ \E b \in PassComputeBuilders :
          Len(compute_pipelines) < MaxPipelines /\ BuildComputePipeline(b)
    \/ \E pipelines \in {<<0>>, <<1, 0>>} :
          /\ Len(passes.ordered_passes) < MaxPasses
          /\ BuildRenderPass(<<>>, None, pipelines)
    \/ \E pipelines \in {<<0>>, <<1, 0>>} :
          /\ Len(passes.ordered_passes) < MaxPasses
          /\ BuildComputePass(pipelines)
    \/ \E acquire \in Acquisitions : Render(acquire)

SpecPasses == InitTextures /\ [][NextPasses]_vars

(***************************************************************************)
(* Properties of the pass order and of the redraw                          *)
(***************************************************************************)
BeginKinds == {"begin_render_pass", "begin_compute_pass"}

\* The passes a recording opened, in order: <<command, name of the pass>>
OpenedPasses(cmds) ==
    [k \in 1 .. Len(Of(cmds, BeginKinds)) |->
        <<Of(cmds, BeginKinds)[k].cmd, Of(cmds, BeginKinds)[k].pass>>]

\* What opening the passes of `handles` in order records
DeclaredPasses(handles) ==
    [k \in 1 .. Len(handles) |->
        IF handles[k][1] = "RenderPass"
        THEN <<"begin_render_pass", get(render_passes, handles[k][2]).name>>
        ELSE <<"begin_compute_pass", get(compute_passes, handles[k][2]).name>>]

\* C16: the order PassIter walks is the order the passes were built in,
\* whatever their kinds: a pass build appends the new pass to it and no other
\* step changes it; a frame that completes opens exactly these passes, each
\* once, in that order, and a frame that panics opens a prefix of them.
C16_PassesReplayInBuildOrder ==
    [][/\ last'.op = "render_pass_build" =>
             PassIter(passes', 0) = Append(PassIter(passes, 0), <<"RenderPass", last'.handle>>)
       /\ last'.op = "compute_pass_build" =>
             PassIter(passes', 0) = Append(PassIter(passes, 0), <<"ComputePass", last'.handle>>)
       /\ last'.op \notin {"render_pass_build", "compute_pass_build"} =>
             PassIter(passes', 0) = PassIter(passes, 0)
       /\ last'.op = "render" /\ last'.result = "ok" =>
             OpenedPasses(frame'.cmds) = DeclaredPasses(PassIter(passes, 0))
       /\ last'.op = "render" /\ last'.result = "panic" =>
             /\ Len(OpenedPasses(frame'.cmds)) <= Len(PassIter(passes, 0))
             /\ OpenedPasses(frame'.cmds) =
                   SubSeq(DeclaredPasses(PassIter(passes, 0)), 1,
                          Len(OpenedPasses(frame'.cmds)))]_vars

\* A frame completed over a render pass, a compute pass and a second render
\* pass, built in that order
C16_Witness ==
    /\ RenderedFrame /\ last.result = "ok"
    /\ passes.ordered_passes = <<<<0, "Render">>, <<0, "Compute">>, <<1, "Render">>>>
    /\ Len(OpenedPasses(frame.cmds)) = 3

\* The passes opened and the pipelines bound by a recording, in order
Skeleton(cmds) ==
    [k \in 1 .. Len(Of(cmds, BeginKinds \cup {"set_pipeline"})) |->
        LET c == Of(cmds, BeginKinds \cup {"set_pipeline"})[k]
        IN  IF c.cmd = "set_pipeline" THEN <<c.cmd, c.kind, c.pipeline>>
            ELSE <<c.cmd, c.pass>>]

\* What the declared order asks for: each pass, followed by its pipelines in
\* the order of its list
RECURSIVE DeclaredSkeleton(_, _)
DeclaredSkeleton(handles, i) ==
    IF i > Len(handles) THEN <<>>
    ELSE (IF handles[i][1] = "RenderPass"
          THEN <<<<"begin_render_pass", get(render_passes, handles[i][2]).name>>>>
               \o [k \in 1 .. Len(get(render_passes, handles[i][2]).pipelines) |->
                      <<"set_pipeline", "render",
                        get(render_pipelines,
                            get(render_passes, handles[i][2]).pipelines[k]).name>>]
          ELSE <<<<"begin_compute_pass", get(compute_passes, handles[i][2]).name>>>>
               \o [k \in 1 .. Len(get(compute_passes, handles[i][2]).pipelines) |->
                      <<"set_pipeline", "compute",
                        get(compute_pipelines,
                            get(compute_passes, handles[i][2]).pipelines[k]).name>>])
         \o DeclaredSkeleton(handles, i + 1)

\* C17: in a frame that completes, each pass binds its pipelines in the order
\* of its list, and for each pipeline the recording holds set_pipeline, then
\* one set_bind_group per bind group of the pipeline, in list order, the
\* group of position k at slot k (from 0), then exactly one draw (render
\* pass) or one dispatch of the pipeline's three workgroup counts (compute
\* pass) as the last command of the pipeline.
C17_PipelineCommandOrder ==
    RenderedFrame /\ last.result = "ok" =>
       /\ Skeleton(frame.cmds) = DeclaredSkeleton(PassIter(passes, 0), 1)
       /\ \A i \in 1 .. Cardinality(Starts(frame.cmds)) :
             LET seg == Segment(frame.cmds, i)
                 p == WalkedPipelines[i]
             IN  /\ Len(Of(seg, {"set_bind_group"})) = Len(p.bind_groups)
                 /\ \A k \in 1 .. Len(p.bind_groups) :
                       /\ seg[1 + k].cmd = "set_bind_group"
                       /\ seg[1 + k].index = k - 1
                       /\ seg[1 + k].bind_group =
                             get(bind_groups, p.bind_groups[k]).bind_group
                 /\ Len(Of(seg, DrawKinds)) = 1
                 /\ seg[Len(seg)].cmd \in DrawKinds
                 /\ seg[1].kind = "render" =>
                       seg[Len(seg)].cmd \in {"draw", "draw_indexed"}
                 /\ seg[1].kind = "compute" =>
                       /\ seg[Len(seg)].cmd = "dispatch_workgroups"
                       /\ <<seg[Len(seg)].x, seg[Len(seg)].y, seg[Len(seg)].z>>
                             = p.work_groups

\* A frame completed over two bind groups that resolve different buffers,
\* with a render pass of pipelines <<1, 0>> in which a pipeline of bind group
\* list <<1, 0>> bound group 1 at slot 0 and group 0 at slot 1, and with a
\* compute pass of pipelines <<1, 0>> whose two pipelines dispatched their own,
\* different workgroup counts, pipeline 1 first
C17_Witness ==
    /\ RenderedFrame /\ last.result = "ok"
    /\ Len(bind_groups) = 2
    /\ bind_groups[1].bind_group # bind_groups[2].bind_group
    /\ \E r \in 1 .. Len(render_passes) : render_passes[r].pipelines = <<1, 0>>
    /\ \E i \in 1 .. Cardinality(Starts(frame.cmds)) :
          /\ Segment(frame.cmds, i)[1].kind = "render"
          /\ WalkedPipelines[i].bind_groups = <<1, 0>>
          /\ Segment(frame.cmds, i)[2].index = 0
          /\ Segment(frame.cmds, i)[2].bind_group = bind_groups[2].bind_group
          /\ Segment(frame.cmds, i)[3].index = 1
          /\ Segment(frame.cmds, i)[3].bind_group = bind_groups[1].bind_group
    /\ \E c \in 1 .. Len(compute_passes) : compute_passes[c].pipelines = <<1, 0>>
    /\ Len(compute_pipelines) = 2
    /\ compute_pipelines[1].work_groups # compute_pipelines[2].work_groups
    /\ [k \in 1 .. 2 |->
          <<Of(frame.cmds, {"dispatch_workgroups"})[k].x,
            Of(frame.cmds, {"dispatch_workgroups"})[k].y,
            Of(frame.cmds, {"dispatch_workgroups"})[k].z>>]
          = <<compute_pipelines[2].work_groups, compute_pipelines[1].work_groups>>

\* C18: a render() whose target acquisition fails returns that error; no
\* encoder is created, no command recorded, nothing submitted or presented,
\* and no registry, raw resource, surface configuration or status changes.
C18_AcquisitionFailureHasNoEffect ==
    [][last'.op = "render" /\ last'.result \in SurfaceErrors =>
          /\ frame'.acquired = FALSE
          /\ frame'.encoders = 0
          /\ frame'.cmds = <<>>
          /\ frame'.submitted = 0 /\ frame'.presented = 0
          /\ registries' = registries
          /\ destroyed' = destroyed
          /\ config' = config
          /\ status' = status]_vars

\* render() returned Lost with passes and pipelines declared
C18_Witness ==
    /\ last.op = "render" /\ last.result = "Lost"
    /\ Len(passes.ordered_passes) > 1
    /\ render_pipelines # <<>>
    /\ frame = NoFrame

(***************************************************************************)
(* SpecRedraw: the RedrawRequested handlers of the demo and of the         *)
(* triangle example over buffers, a bind group and a render pass           *)
(***************************************************************************)
NextRedraw ==
    \/ \E T \in {"TriangleUniform", "ComputeUniform"}, count \in Counts :
          Len(buffers) < MaxBuffers /\ BuildBuffer(T, UniformUsage, None, count)
    \/ \E calls \in CallSeqs({"uniform"}, 1) :
          Len(bind_groups) < MaxOtherEntries /\ BuildBindGroup(calls)
    \/ Len(shaders) < MaxOtherEntries /\ RegisterShader
    \/ \E b \in PassRenderBuilders :
          Len(render_pipelines) < MaxOtherEntries /\ BuildRenderPipeline(b)
    \/ Len(render_passes) < MaxOtherEntries /\ BuildRenderPass(<<>>, None, <<0>>)
    \/ \E caller \in Callers, acquire \in Acquisitions :
          \E triangle_state_buffer \in 0 .. MaxBuffers - 1,
             compute_buffer \in 0 .. MaxBuffers - 1 :
             RedrawRequested(caller, triangle_state_buffer, compute_buffer, acquire)

SpecRedraw == Init /\ [][NextRedraw]_vars

\* What the writes of the handler recorded in arg leave, in the state the
\* handler was called in
HandlerWrote(arg) ==
    IF arg.writes = <<>> THEN NoWrites
    ELSE handler_writes(arg.caller, arg.writes[1], arg.writes[2])

\* C19: a redraw whose render() failed to acquire the target handles it in
\* that same step: Lost and OutOfMemory reconfigure the surface and the loop
\* goes on, Timeout changes nothing and the loop goes on, Outdated ends the
\* event loop; the frame is dropped, nothing is kept to be retried, and
\* nothing but the handler's own buffer writes has changed.
C19_AcquisitionFailureHandling ==
    [][last'.op = "redraw" /\ last'.result \in SurfaceErrors =>
          /\ last'.result \in {"Lost", "OutOfMemory"} =>
                last'.arg.handling = "recreate" /\ status' = "running"
          /\ last'.result = "Timeout" =>
                last'.arg.handling = "println" /\ status' = "running"
          /\ last'.result = "Outdated" =>
                last'.arg.handling = "Exit" /\ status' = "exited"
          /\ frame' = NoFrame
          /\ config' = config
          /\ buffers' = HandlerWrote(last'.arg).buffers
          /\ bind_groups' = HandlerWrote(last'.arg).bind_groups
          /\ UNCHANGED <<textures, samplers, shaders, render_pipelines,
                         compute_pipelines, render_passes, compute_passes,
                         passes, issued>>]_vars

(***************************************************************************)
(* SpecAttachments: textures, render passes over color attachments, and    *)
(* the frames and resizes over them                                        *)
(***************************************************************************)
\* The arguments of one add_color_attachment call: a texture the context
\* has returned or the public FRAMEBUFFER handle, a clear color or none,
\* and the store flag
AttachmentCalls ==
    {<<texture, ops[1], ops[2]>> :
        texture \in {FRAMEBUFFER} \cup Handles(textures),
        ops \in {<<None, TRUE>>, <<Some("BLACK"), FALSE>>}}

\* What a builder holds after at most n add_color_attachment calls
RECURSIVE AttachmentLists(_)
AttachmentLists(n) ==
    IF n = 0 THEN {<<>>}
    ELSE AttachmentLists(n - 1)
         \cup {add_color_attachment(a, c[1], c[2], c[3]) :
                  a \in {q \in AttachmentLists(n - 1) : Len(q) = n - 1},
                  c \in AttachmentCalls}

NextAttachments ==
    \/ \E size \in MixedSizes :
          Len(textures) < MixedTextures /\ BuildTexture("u8x4", size)
    \/ \E color_attachments \in AttachmentLists(2) :
          /\ Len(render_passes) < MaxEntries
          /\ BuildRenderPass(color_attachments, None, <<>>)
    \/ Len(render_passes) < MaxEntries /\ AddRenderPass(<<>>, None, <<>>)
    \/ \E size \in SurfaceSizes : ResizeBounded /\ Resize(size)
    \/ \E acquire \in GraphAcquisitions : Render(acquire)

SpecAttachments == InitTextures /\ [][NextAttachments]_vars

\* C21: a render pass built with no color attachment added has exactly one,
\* the FRAMEBUFFER handle with load = Load and store = true; a pass built
\* with attachments added has exactly those, in the order added.
C21_DefaultAttachment ==
    [][last'.op = "render_pass_build" /\ last'.result = "ok" =>
          LET added == last'.arg.color_attachments
              built == render_passes'[last'.handle + 1].color_attachments
          IN  /\ added = <<>> =>
                    built = <<<<FRAMEBUFFER, [load |-> <<"Load">>, store |-> TRUE]>>>>
              /\ added # <<>> => built = added]_vars

\* A pass was built with no attachment added, after a pass with two
C21_Witness ==
    /\ last.op = "render_pass_build" /\ last.arg.color_attachments = <<>>
    /\ Len(render_passes) = 2
    /\ Len(render_passes[1].color_attachments) = 2
    /\ Len(render_passes[2].color_attachments) = 1

\* The attachments of the begin_render_pass commands of a recording resolve
\* each attachment that names a built texture to the current view of that
\* texture
TextureAttachmentsResolve(cmds) ==
    \A k \in 1 .. Len(cmds) :
       cmds[k].cmd = "begin_render_pass" =>
          LET declared == render_passes[cmds[k].pass[2] + 1].color_attachments
          IN  \A i \in 1 .. Len(declared) :
                 declared[i][1] \in Handles(textures) =>
                    cmds[k].color_attachments[i].view
                       = [kind |-> "TextureView",
                          id |-> textures[declared[i][1] + 1].texture.id]

\* C28: no handle a texture build returned is the FRAMEBUFFER handle, and in
\* every frame an attachment that names a built texture is given the current
\* view of that texture, the first texture of the context included.
C28_TextureAttachmentsNeverAlias ==
    /\ \A i \in issued : i.registry = "textures" => i.handle # FRAMEBUFFER
    /\ RenderedFrame => TextureAttachmentsResolve(frame.cmds)

(***************************************************************************)
(* SpecBindings: bind groups built from every bind_* method of the builder *)
(***************************************************************************)
NextBindings ==
    \/ Len(buffers) < MixedBuffers /\ BuildBufferInit("Vec2", UniformUsage, None, 1)
    \/ \E size \in MixedSizes :
          Len(textures) < MaxOtherEntries /\ BuildTexture("u8x4", size)
    \/ Len(samplers) < MaxOtherEntries /\ BuildSampler
    \/ \E n \in 0 .. MaxBindings :
          \E calls \in CallSeqs({"uniform", "storage", "texture", "storage_texture",
                                 "sampler"}, n) :
             Len(bind_groups) < MaxBindGroups /\ BuildBindGroup(calls)

SpecBindings == InitTextures /\ [][NextBindings]_vars

\* The (binding, handle) pairs a bind group depends on
Dependencies(self) == self.buffers \o self.textures \o self.samplers

\* The kind of resource a layout entry asks for
ResourceKind(entry) ==
    CASE entry.ty \in {"Buffer:Uniform", "Buffer:Storage"} -> "Buffer"
      [] entry.ty \in {"Texture", "StorageTexture"} -> "TextureView"
      [] entry.ty = "Sampler" -> "Sampler"

\* C22: in every bind group each layout entry has exactly one dependency and
\* exactly one resolved resource on its binding, of the kind the entry asks
\* for (a sampler for a sampler entry), and every dependency is on the
\* binding of a layout entry.
C22_DependenciesMatchLayout ==
    \A g \in 1 .. Len(bind_groups) :
       LET self == bind_groups[g]
       IN  /\ \A e \in 1 .. Len(self.layout) :
                 /\ Cardinality({k \in 1 .. Len(Dependencies(self)) :
                                    Dependencies(self)[k][1] = self.layout[e].binding}) = 1
                 /\ Cardinality({k \in 1 .. Len(self.bind_group) :
                                    /\ self.bind_group[k].binding = self.layout[e].binding
                                    /\ self.bind_group[k].resource.kind
                                          = ResourceKind(self.layout[e])}) = 1
                 /\ Cardinality({k \in 1 .. Len(self.bind_group) :
                                    self.bind_group[k].binding = self.layout[e].binding}) = 1
           /\ \A k \in 1 .. Len(Dependencies(self)) :
                 \E e \in 1 .. Len(self.layout) :
                    self.layout[e].binding = Dependencies(self)[k][1]

(***************************************************************************)
(* SpecPipelines: pipeline builders with any of their methods left out     *)
(***************************************************************************)
\* Mutant of RenderPipelineBuilder_new: back faces are culled by default
RenderPipelineBuilder_new_culls_back ==
    [bind_groups |-> <<>>, vertex_shader |-> None, fragment_shader |-> None,
     vertex_buffers |-> <<>>, instance_buffers |-> <<>>, topology |-> None,
     index_buffer |-> None, front_face |-> None, culling |-> Some("Back"),
     polygon_mode |-> "Fill", depth_stencil |-> None]

\* RenderPipelineBuilder::new
RenderPipelineBuilder_new ==
    [bind_groups |-> <<>>, vertex_shader |-> None, fragment_shader |-> None,
     vertex_buffers |-> <<>>, instance_buffers |-> <<>>, topology |-> None,
     index_buffer |-> None, front_face |-> None, culling |-> None,
     polygon_mode |-> "Fill", depth_stencil |-> None]

\* The builder after the setters named in called, each with one argument:
\* vertex_shader(0, _), topology(TriangleList), front_face(Ccw),
\* culling(Back), polygon_mode(Line), depth_stencil::<f32>(true, Less, ..)
RenderPipelineBuilder_calls(called) ==
    [RenderPipelineBuilder_new EXCEPT
        !.vertex_shader = IF "vertex_shader" \in called THEN Some(0) ELSE @,
        !.topology = IF "topology" \in called THEN Some("TriangleList") ELSE @,
        !.front_face = IF "front_face" \in called THEN Some("Ccw") ELSE @,
        !.culling = IF "culling" \in called THEN Some("Back") ELSE @,
        !.polygon_mode = IF "polygon_mode" \in called THEN "Line" ELSE @,
        !.depth_stencil = IF "depth_stencil" \in called
                          THEN Some([format |-> FORMAT("f32"),
                                     depth_write_enabled |-> TRUE,
                                     depth_compare |-> "Less"])
                          ELSE @]

\* ComputePipelineBuilder::new
ComputePipelineBuilder_new ==
    [bind_groups |-> <<>>, shader |-> None, work_groups |-> None]

\* The builder after the setters named in called: set_shader(0, _) sets the
\* shader and its entry point together, work_groups([1, 2, 3])
ComputePipelineBuilder_calls(called) ==
    [ComputePipelineBuilder_new EXCEPT
        !.shader = IF "set_shader" \in called THEN Some(0) ELSE @,
        !.work_groups = IF "work_groups" \in called THEN Some(<<1, 2, 3>>) ELSE @]

RenderSetters ==
    {"vertex_shader", "topology", "front_face", "culling", "polygon_mode",
     "depth_stencil"}

ComputeSetters == {"set_shader", "work_groups"}

NextPipelines ==
    \/ Len(shaders) < MaxOtherEntries /\ RegisterShader
    \/ \E called \in SUBSET RenderSetters :
          /\ Len(render_pipelines) < MaxPipelines
          /\ BuildRenderPipeline(RenderPipelineBuilder_calls(called))
    \/ \E called \in SUBSET ComputeSetters :
          /\ Len(compute_pipelines) < MaxPipelines
          /\ BuildComputePipeline(ComputePipelineBuilder_calls(called))

SpecPipelines == Init /\ [][NextPipelines]_vars

\* The pipeline a build step registered
Built(registry) == registry[Len(registry)]

\* What a render pipeline build does with the builder the setters in called
\* left: a panic that registers nothing when a mandatory setter is missing,
\* otherwise the optional fields of the setters that were called and the
\* defaults of those that were not
RenderBuildOutcome(called) ==
    /\ {"vertex_shader", "topology", "front_face"} \ called # {}
          => /\ status' = "panicked"
             /\ render_pipelines' = render_pipelines
             /\ compute_pipelines' = compute_pipelines
    /\ status' = "running"
          => /\ {"vertex_shader", "topology", "front_face"} \subseteq called
             /\ Len(render_pipelines') = Len(render_pipelines) + 1
             /\ "polygon_mode" \notin called
                   => Built(render_pipelines').pipeline.polygon_mode = "Fill"
             /\ "culling" \notin called
                   => Built(render_pipelines').pipeline.cull_mode = [none |-> TRUE]
             /\ "depth_stencil" \notin called
                   => Built(render_pipelines').pipeline.depth_stencil = [none |-> TRUE]

ComputeBuildOutcome(called) ==
    /\ {"set_shader", "work_groups"} \ called # {}
          => /\ status' = "panicked"
             /\ render_pipelines' = render_pipelines
             /\ compute_pipelines' = compute_pipelines
    /\ status' = "running"
          => /\ {"set_shader", "work_groups"} \subseteq called
             /\ Len(compute_pipelines') = Len(compute_pipelines) + 1

\* C23: a pipeline build with a mandatory field unset (render: vertex shader
\* and entry point, topology, front face; compute: shader and entry point,
\* work group count) panics and registers no pipeline; a render pipeline
\* built with all of them set has fill mode, no culling and no depth test
\* wherever the optional setter was not called
C23_MandatoryFieldsOrPanic ==
    [][/\ \A called \in SUBSET RenderSetters :
             BuildRenderPipeline(RenderPipelineBuilder_calls(called))
                => RenderBuildOutcome(called)
       /\ \A called \in SUBSET ComputeSetters :
             BuildComputePipeline(ComputePipelineBuilder_calls(called))
                => ComputeBuildOutcome(called)]_vars

\* A render pipeline built by the mandatory setters alone is registered with
\* the defaults, next to a compute pipeline, and a build has since panicked
C23_Witness ==
    /\ status = "panicked"
    /\ last.op = "render_pipeline_build"
    /\ Len(render_pipelines) = 1
    /\ render_pipelines[1].pipeline.polygon_mode = "Fill"
    /\ render_pipelines[1].pipeline.cull_mode = None
    /\ render_pipelines[1].pipeline.depth_stencil = None
    /\ Len(compute_pipelines) = 1

\* The vertex layouts captured by the buffers the handles name, in order
CapturedLayouts(handles) ==
    [i \in 1 .. Len(handles) |-> get(buffers, handles[i]).vertex_format]

\* C24: no render pipeline is registered over a vertex or instance buffer
\* without a captured vertex layout, and the vertex-buffer layout list of a
\* registered pipeline is the layouts of its vertex buffers in call order
\* followed by the layouts of its instance buffers in call order
C24_VertexLayoutsInOrder ==
    \A p \in 1 .. Len(render_pipelines) :
       /\ \A i \in 1 .. Len(render_pipelines[p].vertex_buffers) :
             /\ get(buffers, render_pipelines[p].vertex_buffers[i]) # None
             /\ get(buffers, render_pipelines[p].vertex_buffers[i]).vertex_format # None
       /\ \A i \in 1 .. Len(render_pipelines[p].instance_buffers) :
             /\ get(buffers, render_pipelines[p].instance_buffers[i]) # None
             /\ get(buffers, render_pipelines[p].instance_buffers[i]).vertex_format # None
       /\ render_pipelines[p].pipeline.buffers
             = CapturedLayouts(render_pipelines[p].vertex_buffers)
               \o CapturedLayouts(render_pipelines[p].instance_buffers)

\* A pipeline over a vertex buffer and an instance buffer of the other step
\* mode is registered while a buffer without a vertex layout exists
C24_Witness ==
    /\ Len(render_pipelines) = 1
    /\ Len(render_pipelines[1].vertex_buffers) = 1
    /\ Len(render_pipelines[1].instance_buffers) = 1
    /\ render_pipelines[1].pipeline.buffers[1].some.step_mode = "Vertex"
    /\ render_pipelines[1].pipeline.buffers[2].some.step_mode = "Instance"
    /\ \E h \in Handles(buffers) : get(buffers, h).vertex_format = None

(***************************************************************************)
(* SpecReorder: render passes whose pipeline lists are replaced, in both   *)
(* build profiles                                                          *)
(***************************************************************************)
\* The lists handed to reorder_pipelines: up to two pipeline handles, with
\* duplicates, over the handles of MaxPipelines pipelines and one more
ReorderLists ==
    {<<>>}
    \cup {<<h>> : h \in 0 .. MaxPipelines}
    \cup {<<h, k>> : h \in 0 .. MaxPipelines, k \in 0 .. MaxPipelines}

NextReorder ==
    \/ Len(shaders) < MaxOtherEntries /\ RegisterShader
    \/ /\ Len(render_pipelines) < MaxPipelines
       /\ BuildRenderPipeline(
             RenderPipelineBuilder_calls({"vertex_shader", "topology", "front_face"}))
    \/ \E pipelines \in {<<h>> : h \in Handles(render_pipelines)} :
          /\ Len(render_passes) < MaxEntries
          /\ BuildRenderPass(<<>>, None, pipelines)
    \/ \E pass \in 0 .. MaxEntries - 1, pipelines \in ReorderLists :
          ReorderPipelines(pass, pipelines)
    \/ \E acquire \in GraphAcquisitions : Render(acquire)

SpecReorder == Init /\ [][NextReorder]_vars

\* Some handle of the list names no registered render pipeline
Unresolved(pipelines) ==
    \E i \in 1 .. Len(pipelines) : get(render_pipelines, pipelines[i]) = None

\* A reorder that went through: the pass holds the given list, and every
\* other pass, every pipeline and every attachment is as before
Replaced(pass, pipelines) ==
    /\ status' = "running"
    /\ Len(render_passes') = Len(render_passes)
    /\ render_passes'[pass + 1].pipelines = pipelines
    /\ render_passes'[pass + 1].color_attachments
          = render_passes[pass + 1].color_attachments
    /\ render_passes'[pass + 1].depth_attachments
          = render_passes[pass + 1].depth_attachments
    /\ \A other \in Handles(render_passes) \ {pass} :
          render_passes'[other + 1] = render_passes[other + 1]
    /\ render_pipelines' = render_pipelines
    /\ compute_pipelines' = compute_pipelines
    /\ compute_passes' = compute_passes
    /\ passes' = passes

\* C25: reorder_pipelines(pass, list) checks that every handle of the list
\* resolves in the render-pipeline registry and then replaces the pass's
\* list wholesale, order and duplicates kept, changing nothing else; a list
\* with an unresolved handle is a fatal misuse that leaves the pass as it was
C25_ReorderValidatesHandles ==
    [][\A pass \in Handles(render_passes), pipelines \in ReorderLists :
          ReorderPipelines(pass, pipelines)
             => IF Unresolved(pipelines)
                THEN status' = "panicked" /\ render_passes' = render_passes
                ELSE Replaced(pass, pipelines)]_vars

\* C26: the byte size of every registered buffer is a multiple of
\* MAP_ALIGNMENT (8): a buffer of another size is never registered, whether
\* it was constructed through build(count) or through build_init(data)
C26_BufferSizesAligned ==
    \A h \in Handles(buffers) : get(buffers, h).buffer.size % MAP_ALIGNMENT = 0

\* C30: a buffer never shrinks and never changes its usage flags, its
\* element-type tag, its element size or its vertex layout: a write in place
\* keeps the capacity and a reallocating write strictly increases it, so
\* that the element count read for draw ranges after a write is the larger
\* of the count before it and the count written
C30_CapacityNeverDecreases ==
    [][/\ Len(buffers') >= Len(buffers)
       /\ \A h \in Handles(buffers) :
             /\ get(buffers', h).buffer.size >= get(buffers, h).buffer.size
             /\ get(buffers', h).buffer.usage = get(buffers, h).buffer.usage
             /\ get(buffers', h).type_id = get(buffers, h).type_id
             /\ get(buffers', h).element_size = get(buffers, h).element_size
             /\ get(buffers', h).vertex_format = get(buffers, h).vertex_format
       /\ WriteStep =>
             /\ last'.changed
                   => get(buffers', last'.handle).buffer.size
                         > get(buffers, last'.handle).buffer.size
             /\ ~last'.changed
                   => get(buffers', last'.handle).buffer.size
                         = get(buffers, last'.handle).buffer.size
             /\ len(get(buffers', last'.handle))
                   = IF last'.arg.count > len(get(buffers, last'.handle))
                     THEN last'.arg.count
                     ELSE len(get(buffers, last'.handle))]_vars

\* A buffer that was reallocated to hold two elements has since been
\* written in place with one, and still counts two
C30_Witness ==
    /\ last.op = "write_to_buffer"
    /\ last.result = "ok"
    /\ ~last.changed
    /\ last.arg.count = 1
    /\ get(buffers, last.handle).buffer.id[3] > 0
    /\ len(get(buffers, last.handle)) = 2

\* The instance buffers of pipeline p are bound in its commands seg, the
\* one at position k (from 0) at slot (number of vertex buffers + k), before
\* a draw
InstanceBuffersBound(p, seg) ==
    \A k \in 1 .. Len(p.instance_buffers) :
       \E c \in 1 .. Len(seg) :
          /\ seg[c].cmd = "set_vertex_buffer"
          /\ seg[c].slot = Len(p.vertex_buffers) + k - 1
          /\ seg[c].buffer = get(buffers, p.instance_buffers[k]).buffer.id
          /\ \E d \in c + 1 .. Len(seg) : seg[d].cmd \in DrawKinds

\* C29: for every pipeline with instance buffers, a frame that completes
\* binds each of them at slot (number of vertex buffers + its position)
\* before the pipeline's draw, with and without an index buffer
C29_InstanceBuffersBound ==
    RenderedFrame /\ last.result = "ok" =>
       \A i \in 1 .. Cardinality(Starts(frame.cmds)) :
          InstanceBuffersBound(WalkedPipelines[i], Segment(frame.cmds, i))

\* C27: a render() that succeeds acquires the target, opens one command
\* encoder, records every declared pass, submits the encoder once and then
\* presents the target once, in this order; it leaves every registry (with
\* the buffer capacities, texture extents and bind-group entries in them),
\* the set of destroyed raw resources, the issued handles and the surface
\* configuration as they were
C27_RenderOrder ==
    [][last'.op = "render" /\ last'.result = "ok" =>
          /\ frame'.acquired
          /\ frame'.calls = <<"get_current_texture", "create_view",
                              "create_command_encoder", "passes", "finish",
                              "submit", "present">>
          /\ frame'.encoders = 1
          /\ frame'.submitted = 1
          /\ frame'.presented = 1
          /\ OpenedPasses(frame'.cmds) = DeclaredPasses(PassIter(passes, 0))
          /\ registries' = registries
          /\ destroyed' = destroyed
          /\ issued' = issued
          /\ config' = config
          /\ status' = "running"]_vars

\* A frame over a render pass with a pipeline and a compute pass was
\* submitted and presented, with a buffer, a texture and a bind group
\* registered
C27_Witness ==
    /\ last.op = "render" /\ last.result = "ok"
    /\ frame.submitted = 1 /\ frame.presented = 1
    /\ Len(OpenedPasses(frame.cmds)) >= 2
    /\ \E k \in 1 .. Len(frame.cmds) : frame.cmds[k].cmd = "set_pipeline"
    /\ buffers # <<>> /\ textures # <<>> /\ bind_groups # <<>>

====
